---------------------------- MODULE Spec2Model ----------------------------
(***************************************************************************)
(* A model of the StingerOps transit line planner                          *)
(* (src/stinger/tlpf_ktransfers.py): the k-transfer router, the solution   *)
(* evaluator and the command-line pipeline that drives them.               *)
(*                                                                         *)
(* Units.  The program computes with floats; the model computes with       *)
(* integers in fixed units, chosen so that every quotient the program      *)
(* forms on the modelled inputs is exact:                                  *)
(*   time    in minutes;                                                   *)
(*   demand  in halves: OneDemand units are the float 1.0;                 *)
(*   cost    (demand x time) in halves: OneCost units are the float 1.0;   *)
(*   cycle   time of a line in tenths of a minute;                         *)
(*   length  in units of 1e-6 km and speed in units of 1e-6 km/h, so that  *)
(*           the speed floor 1e-6 of travel_minutes is the integer 1.      *)
(* All stops lie on one meridian, where the great-circle distance of two   *)
(* stops is proportional to the difference of their latitudes.             *)
(* Sequences are 1-based: position i of the model is index i-1 of Python.  *)
(***************************************************************************)
EXTENDS Integers, Sequences, FiniteSets, TLC

VARIABLES
    pc,          \* position of the running function
    stops,       \* Dict[str, Stop]: stop id -> [lat, kind]
    lines,       \* List[Line] handed to the router / the evaluator
    od,          \* the OD DataFrame: [cols, rows]
    params,      \* fleet_buses, k_transfers, transfer_penalty_min, speed_kmh
    query,       \* router arguments o, d, wait_by_line
    search,      \* router locals: pq, dist, status, result
    acc,         \* evaluator locals: row, total_cost, total_demand, ...
    result,      \* value returned by the running function; the metrics main prints
    src,         \* main: the sources frame
    dst,         \* main: the destinations frame
    cands,       \* main: the candidate lines
    selected     \* main: the selected lines

vars == <<pc, stops, lines, od, params, query, search, acc, result,
          src, dst, cands, selected>>

---------------------------------------------------------------------------
(* Bounds of the model *)

NStops == 4          \* stop ids are 1..NStops
MaxLineLen == 4      \* longest stop sequence of a line
MaxLines == 2        \* longest line list
MaxLineStops == 6    \* most stops of all lines of a list together
MaxK == 1            \* largest k_max
MaxPenalty == 1      \* transfer penalties are 0..MaxPenalty, in steps of 5 minutes
MaxSpeed == 30       \* largest speed_kmh
MaxFleet == 6        \* largest fleet size
MaxOD == 2           \* most rows of an OD matrix
MaxEvalLineStops == 4 \* most stops of all lines of an evaluated list together
MaxDemand == 2       \* largest demand of an OD row, in halves
MaxSources == 2      \* most rows of the sources frame
MaxDestinations == 3 \* most rows of the destinations frame
MaxShare == 1        \* largest share of a source's demand per destination, in halves
MaxTargetLines == 2  \* largest --target-lines
MaxPool == 3         \* most candidate lines of a pool handed to a selection policy
MaxSelectPenalty == 7 \* the larger transfer penalty of a selection, in steps of 5 minutes
MaxAddedLen == 3      \* longest route of a line added to a list
MaxSeqLen == 3       \* longest stop list handed to a sequencer
MaxHubStops == 6     \* most destinations of the runs with many hubs
MaxGrid == 1         \* stops and buildings have coordinates 0..MaxGrid
MaxStopRows == 4     \* most rows of stops.csv
MaxBuildings == 2    \* most rows of buildings.csv

(* Program constants *)

SpeedFloor == 1          \* max(speed_kmh, 1e-6), in units of 1e-6 km/h
MinutesPerHour == 60     \* (km / speed) * 60.0 and headway = 60.0 / freq

Inf == -1                \* float("inf")
OneDemand == 2           \* the 1.0 of max(total_demand, 1.0), in halves
OneCost == 2             \* the 1.0 of max(total_cost, 1.0), in halves
Sentinel == 2000000000   \* the cost 1e9 of an empty line list, in halves
LayoverFactor == 11      \* total * (1.0 + layover_frac), in tenths of a minute
OneMinute == 10          \* the 1.0 of max(cyc_min, 1.0), in tenths of a minute
MaxHubs == 6             \* sorted_stops[:min(6, len(sorted_stops))]
TopDestinations == 8     \* source_demand.head(8)
MaxCrossRoutes == 3      \* range(min(3, len(hub_stops) - 1))
NearLine == 1111951      \* dist_to_line < 0.01 degrees of latitude, in units of 1e-6 km
TopIntermediate == 4     \* intermediate_candidates[:4]
MinCrossStops == 3       \* len(route_stops) >= 3
FeederHubs == 3          \* hub_stops[:3]
NearHub == 500000        \* dist < 0.5 km, in units of 1e-6 km
TopNearby == 5           \* nearby_stops[:5]
TopSourceDestinations == 10  \* source_od.head(10)
RoutesPerSource == 3     \* relevant_lines[:3]
OverlapLimit == 7        \* the 0.7 of len(line.stops) * 0.7, in tenths
OverlapScale == 10       \* tenths
CoverageWeight == 1000   \* (coverage - old_coverage) * 1000
CostWeight == 1000       \* (cost - old_cost) / 1000
ClosestStops == 3     \* nsmallest(3, "distance")
MinDemand == 10       \* clip(lower=10)

---------------------------------------------------------------------------
(* Arithmetic on costs, float("inf") included *)

IsFinite(x) == x # Inf

Less(a, b) == IsFinite(a) /\ (~IsFinite(b) \/ a < b)

LessEq(a, b) == ~IsFinite(b) \/ (IsFinite(a) /\ a <= b)

Max(a, b) == IF a >= b THEN a ELSE b

Abs(x) == IF x < 0 THEN -x ELSE x

RECURSIVE SeqSum(_)
SeqSum(s) == IF s = <<>> THEN 0 ELSE s[1] + SeqSum(Tail(s))

---------------------------------------------------------------------------
(* Geometry *)

haversine_km(lat1, lat2) == Abs(lat1 - lat2)

travel_minutes(lat1, lat2, speed_kmh) ==
    (haversine_km(lat1, lat2) * MinutesPerHour) \div Max(speed_kmh, SpeedFloor)

StopIds == 1..NStops

Stop(lat, kind) == [lat |-> lat, kind |-> kind]

Line(line_id, stop_seq) == [line_id |-> line_id, stops |-> stop_seq]

---------------------------------------------------------------------------
(* K-transfer routing *)

build_line_indices(ln, sid) ==
    CHOOSE i \in DOMAIN ln.stops :
        /\ ln.stops[i] = sid
        /\ \A j \in DOMAIN ln.stops : j > i => ln.stops[j] # sid

LineById(lns, lid) ==
    lns[CHOOSE n \in DOMAIN lns :
            /\ lns[n].line_id = lid
            /\ \A m \in DOMAIN lns : m > n => lns[m].line_id # lid]

LineIds(lns) == {lns[n].line_id : n \in DOMAIN lns}

Serves(ln, sid) == \E i \in DOMAIN ln.stops : ln.stops[i] = sid

\* a dict that keeps one line per stop: the last line serving it
build_stop_to_last_line(lns, sid) ==
    LET serving == SelectSeq(lns, LAMBDA ln : \E i \in DOMAIN ln.stops : ln.stops[i] = sid)
    IN  IF serving = <<>> THEN <<>> ELSE <<serving[Len(serving)]>>

build_stop_to_lines(lns, sid) == SelectSeq(lns, LAMBDA ln : Serves(ln, sid))

build_adj_times(ln, i, stop_lookup, speed_kmh) ==
    travel_minutes(stop_lookup[ln.stops[i]].lat,
                   stop_lookup[ln.stops[i + 1]].lat, speed_kmh)

WaitGet(wait_by_line, lid) ==
    IF lid \in DOMAIN wait_by_line THEN wait_by_line[lid] ELSE 0

DistGet(dist, ns) == IF ns \in DOMAIN dist THEN dist[ns] ELSE Inf


\* tuple order of the heap entries (cost, lid, i, k)
HeapLess(a, b) ==
    \/ a[1] < b[1]
    \/ a[1] = b[1] /\ a[2] < b[2]
    \/ a[1] = b[1] /\ a[2] = b[2] /\ a[3] < b[3]
    \/ a[1] = b[1] /\ a[2] = b[2] /\ a[3] = b[3] /\ a[4] < b[4]

\* pops the largest entry
heappop_largest(pq) == CHOOSE a \in pq : \A b \in pq : b = a \/ HeapLess(b, a)

heappop(pq) == CHOOSE a \in pq : \A b \in pq : b = a \/ HeapLess(a, b)

\* the key of dist: the state (lid, i, k)
DistKey(lid, i, k) == <<lid, i, k>>

Relaxes(nc, dist, ns) == Less(nc, DistGet(dist, ns))

\* line 397: the label of the popped state is no longer the popped cost
IsStale(top, dist) == top[1] # DistGet(dist, DistKey(top[2], top[3], top[4]))

\* dist[ns] = nc for every accepted label (ns, nc)
DistPut(dist, labels) ==
    [key \in DOMAIN dist \cup {DistKey(l[1][1], l[1][2], l[1][3]) : l \in labels} |->
        LET mine == {l \in labels : DistKey(l[1][1], l[1][2], l[1][3]) = key}
        IN  IF mine = {} THEN dist[key]
            ELSE (CHOOSE l \in mine : \A m \in mine : l[2] <= m[2])[2]]

CanMoveForward(ln, i) == i < Len(ln.stops)

CanTransfer(k, k_max) == k < k_max

\* only d is looked up
NotServedDestination(lns, o, d) == build_stop_to_lines(lns, d) = <<>>

NotServed(lns, o, d) ==
    build_stop_to_lines(lns, o) = <<>> \/ build_stop_to_lines(lns, d) = <<>>

Searching(pq, dist) ==
    [status |-> "running", pq |-> pq, dist |-> dist, result |-> Inf]

Returned(cost) ==
    [status |-> "returned", pq |-> {}, dist |-> <<>>, result |-> cost]

\* an uncaught KeyError
Raised == [status |-> "raised", pq |-> {}, dist |-> <<>>, result |-> Inf]

\* line 370-371: stops[ln.stops[i]] for every stop of every line
LooksUpUnknownStop(lns, stop_lookup) ==
    \E n \in DOMAIN lns : \E i \in DOMAIN lns[n].stops :
        Len(lns[n].stops) >= 2 /\ lns[n].stops[i] \notin DOMAIN stop_lookup

\* lines 379-393: the early returns and the initial pushes
RouterStart(o, d, lns, stop_lookup, wait_by_line) ==
    IF lns = <<>> THEN Returned(Inf)
    ELSE IF NotServed(lns, o, d) THEN Returned(Inf)
    ELSE IF LooksUpUnknownStop(lns, stop_lookup) THEN Raised
    ELSE IF build_stop_to_lines(lns, o) = <<>> THEN Raised
    ELSE LET serving == build_stop_to_lines(lns, o)
             seeds == {<<serving[n].line_id, build_line_indices(serving[n], o), 0>> :
                          n \in DOMAIN serving}
         IN  Searching({<<WaitGet(wait_by_line, ns[1]), ns[1], ns[2], ns[3]>> : ns \in seeds},
                       [key \in {DistKey(ns[1], ns[2], ns[3]) : ns \in seeds} |->
                           WaitGet(wait_by_line, key[1])])

\* lines 402-408: the label proposed for the next position of the same line
ForwardUnlessTransfer(cost, lid, i, k, lns, stop_lookup, k_max, speed_kmh) ==
    IF CanMoveForward(LineById(lns, lid), i) /\ ~CanTransfer(k, k_max)
    THEN {<<<<lid, i + 1, k>>,
            cost + build_adj_times(LineById(lns, lid), i, stop_lookup, speed_kmh)>>}
    ELSE {}

Forward(cost, lid, i, k, lns, stop_lookup, k_max, speed_kmh) ==
    IF CanMoveForward(LineById(lns, lid), i)
    THEN {<<<<lid, i + 1, k>>,
            cost + build_adj_times(LineById(lns, lid), i, stop_lookup, speed_kmh)>>}
    ELSE {}

\* lines 409-417: the labels proposed for the other lines at the current stop
Transfers(cost, lid, i, k, lns, wait_by_line, penalty, k_max) ==
    LET cur_stop == LineById(lns, lid).stops[i]
        others == build_stop_to_lines(lns, cur_stop)
    IN  IF CanTransfer(k, k_max)
        THEN {<<<<others[n].line_id, build_line_indices(others[n], cur_stop), k + 1>>,
                cost + penalty + WaitGet(wait_by_line, others[n].line_id)>> :
                  n \in {m \in DOMAIN others : others[m].line_id # lid}}
        ELSE {}

Proposals(cost, lid, i, k, lns, stop_lookup, wait_by_line, penalty, k_max, speed_kmh) ==
    Forward(cost, lid, i, k, lns, stop_lookup, k_max, speed_kmh)
        \cup Transfers(cost, lid, i, k, lns, wait_by_line, penalty, k_max)

\* lines 395-418: one iteration of the while loop
RouterStep(st, d, lns, stop_lookup, wait_by_line, penalty, k_max, speed_kmh) ==
    IF st.pq = {} THEN Returned(Inf)
    ELSE LET top == heappop(st.pq)
             rest == st.pq \ {top}
             cost == top[1]
         IN  IF IsStale(top, st.dist) THEN Searching(rest, st.dist)
             ELSE IF LineById(lns, top[2]).stops[top[3]] = d THEN Returned(cost)
             ELSE LET labels == {l \in Proposals(cost, top[2], top[3], top[4], lns,
                                                 stop_lookup, wait_by_line, penalty,
                                                 k_max, speed_kmh) :
                                     Relaxes(l[2], st.dist, DistKey(l[1][1], l[1][2], l[1][3]))}
                  IN  Searching(rest \cup {<<l[2], l[1][1], l[1][2], l[1][3]>> : l \in labels},
                                DistPut(st.dist, labels))

RECURSIVE RouterRun(_, _, _, _, _, _, _, _)
RouterRun(st, d, lns, stop_lookup, wait_by_line, penalty, k_max, speed_kmh) ==
    IF st.status = "running"
    THEN RouterRun(RouterStep(st, d, lns, stop_lookup, wait_by_line, penalty, k_max, speed_kmh),
                   d, lns, stop_lookup, wait_by_line, penalty, k_max, speed_kmh)
    ELSE st

shortest_time_k_transfers(o, d, lns, stop_lookup, wait_by_line, penalty, k_max, speed_kmh) ==
    RouterRun(RouterStart(o, d, lns, stop_lookup, wait_by_line),
              d, lns, stop_lookup, wait_by_line, penalty, k_max, speed_kmh).result

---------------------------------------------------------------------------
(* Wait times: lines 429-431 *)

\* 0.5 * (60.0 / max(f_min, fleet_buses / n)) with f_min = 1.0
half_headway(fleet_buses, n) ==
    IF fleet_buses >= n
    THEN (MinutesPerHour * n) \div (2 * fleet_buses)
    ELSE MinutesPerHour \div 2

wait_by_line_of(lns, fleet_buses) ==
    [lid \in {lns[n].line_id : n \in DOMAIN lns} |-> half_headway(fleet_buses, Len(lns))]

---------------------------------------------------------------------------
(* Solution evaluation: evaluate_solution_improved, lines 422-458 *)

\* pd.DataFrame(rows): a frame built from no rows has no columns
DataFrame(rows) ==
    [cols |-> IF rows = <<>> THEN {} ELSE {"o", "d", "demand"}, rows |-> rows]

ODRow(o, d, demand) == [o |-> o, d |-> d, demand |-> demand]

Ratio(num, den) == [num |-> num, den |-> den]

\* how a call ends: with a value, or with an exception
Completes(value) == [status |-> "returned", value |-> value]

Raises(error) == [status |-> "raised", value |-> error]

HasRaised(outcome) == outcome.status = "raised"

\* line 426
NoLinesNever(lns) == FALSE

NoLines(lns) == lns = <<>>

\* line 427
EmptyResult ==
    [total_cost |-> Sentinel, demand_coverage |-> Ratio(0, 1), efficiency |-> Ratio(0, 1)]

\* lines 429-436; fleet_buses / len(lines) divides by zero for no lines
EvalStart(lns, fleet_buses) ==
    [status |-> IF Len(lns) = 0 THEN "raised" ELSE "running",
     row |-> 0, total_cost |-> 0, total_demand |-> 0, covered_demand |-> 0,
     accessible_pairs |-> 0, router_calls |-> 0]

\* lines 444-447
FiniteRow(a, r, best) ==
    [a EXCEPT !.row = @ + 1,
              !.total_demand = @ + r.demand,
              !.total_cost = @ + r.demand * best,
              !.covered_demand = @ + r.demand,
              !.accessible_pairs = @ + 1,
              !.router_calls = @ + 1]

\* the unreachable pair counts as covered
FallbackRowCovered(a, r, stop_lookup, penalty, speed_kmh) ==
    [a EXCEPT !.row = @ + 1,
              !.total_demand = @ + r.demand,
              !.total_cost = @ + r.demand *
                  (travel_minutes(stop_lookup[r.o].lat, stop_lookup[r.d].lat, speed_kmh)
                   + penalty),
              !.covered_demand = @ + r.demand,
              !.router_calls = @ + 1]

\* lines 448-452
FallbackRow(a, r, stop_lookup, penalty, speed_kmh) ==
    IF r.o \notin DOMAIN stop_lookup \/ r.d \notin DOMAIN stop_lookup
    THEN [a EXCEPT !.status = "raised", !.router_calls = @ + 1]
    ELSE [a EXCEPT !.row = @ + 1,
                   !.total_demand = @ + r.demand,
                   !.total_cost = @ + r.demand *
                       (travel_minutes(stop_lookup[r.o].lat, stop_lookup[r.d].lat, speed_kmh)
                        + penalty),
                   !.router_calls = @ + 1]

BestOf(r, lns, stop_lookup, fleet_buses, k_transfers, penalty, speed_kmh) ==
    RouterRun(RouterStart(r.o, r.d, lns, stop_lookup, wait_by_line_of(lns, fleet_buses)),
              r.d, lns, stop_lookup, wait_by_line_of(lns, fleet_buses),
              penalty, k_transfers, speed_kmh)

\* lines 438-452: one iteration of the loop over the OD rows
EvalRow(a, r, lns, stop_lookup, fleet_buses, k_transfers, penalty, speed_kmh) ==
    LET best == BestOf(r, lns, stop_lookup, fleet_buses, k_transfers, penalty, speed_kmh)
    IN  IF best.status = "raised" THEN [a EXCEPT !.status = "raised", !.router_calls = @ + 1]
        ELSE IF IsFinite(best.result) THEN FiniteRow(a, r, best.result)
        ELSE FallbackRow(a, r, stop_lookup, penalty, speed_kmh)

\* divides by 1.0 whatever the total
CoverageOfOne(covered_demand, total_demand) == Ratio(covered_demand, OneDemand)

\* line 454
Coverage(covered_demand, total_demand) ==
    Ratio(covered_demand, Max(total_demand, OneDemand))

\* line 456
Efficiency(covered_demand, total_cost) ==
    Ratio(covered_demand, Max(total_cost, OneCost))

\* lines 454-458
EvalResult(a) ==
    [total_cost |-> a.total_cost,
     demand_coverage |-> Coverage(a.covered_demand, a.total_demand),
     efficiency |-> Efficiency(a.covered_demand, a.total_cost)]

RECURSIVE EvalRows(_, _, _, _, _, _, _, _)
EvalRows(a, rows, lns, stop_lookup, fleet_buses, k_transfers, penalty, speed_kmh) ==
    IF a.status = "raised" \/ a.row = Len(rows) THEN a
    ELSE EvalRows(EvalRow(a, rows[a.row + 1], lns, stop_lookup, fleet_buses,
                          k_transfers, penalty, speed_kmh),
                  rows, lns, stop_lookup, fleet_buses, k_transfers, penalty, speed_kmh)

evaluate_solution_improved(lns, frame, stop_lookup, fleet_buses, k_transfers, penalty, speed_kmh) ==
    IF NoLines(lns) THEN Completes(EmptyResult)
    ELSE LET a == EvalRows(EvalStart(lns, fleet_buses), frame.rows, lns, stop_lookup,
                           fleet_buses, k_transfers, penalty, speed_kmh)
         IN  IF a.status = "raised" THEN Raises("KeyError") ELSE Completes(EvalResult(a))

---------------------------------------------------------------------------
(* Input frames and the OD matrix: lines 70-87 *)

SourceRow(stop_id, lat, demand) == [stop_id |-> stop_id, lat |-> lat, demand |-> demand]

\* the demand column of the destinations is read by no function
DestinationRow(stop_id, lat) == [stop_id |-> stop_id, lat |-> lat]

FrameIds(frame) == {frame[n].stop_id : n \in DOMAIN frame}

\* every record carries the whole demand of its source
build_unsplit_od(sources, destinations) ==
    LET nd == Len(destinations)
    IN  DataFrame([n \in 1..(Len(sources) * nd) |->
                      LET s == sources[((n - 1) \div nd) + 1]
                          d == destinations[((n - 1) % nd) + 1]
                      IN  ODRow(s.stop_id, d.stop_id, s.demand)])

\* lines 70-79: every source's demand in equal shares to every destination
build_equal_split_od(sources, destinations) ==
    LET nd == Len(destinations)
    IN  DataFrame([n \in 1..(Len(sources) * nd) |->
                      LET s == sources[((n - 1) \div nd) + 1]
                          d == destinations[((n - 1) % nd) + 1]
                      IN  ODRow(s.stop_id, d.stop_id, s.demand \div nd)])

\* lines 81-87: a destination replaces the source of the same id
build_stops(sources, destinations) ==
    [sid \in FrameIds(sources) \cup FrameIds(destinations) |->
        IF sid \in FrameIds(destinations)
        THEN Stop(destinations[CHOOSE n \in DOMAIN destinations :
                                   destinations[n].stop_id = sid].lat, "destination")
        ELSE Stop(sources[CHOOSE n \in DOMAIN sources :
                              sources[n].stop_id = sid].lat, "source")]

\* the keys of the dict of build_stops, in insertion order
stop_keys(sources, destinations) ==
    [n \in DOMAIN sources |-> sources[n].stop_id] \o
    SelectSeq([n \in DOMAIN destinations |-> destinations[n].stop_id],
              LAMBDA sid : sid \notin FrameIds(sources))

---------------------------------------------------------------------------
(* Lists *)

Range(s) == {s[n] : n \in DOMAIN s}

Min(a, b) == IF a <= b THEN a ELSE b

\* list.sort(..., reverse=True) and sorted(..., reverse=True): stable
\* better[i, j]: the key of s[i] is larger than the key of s[j]
SortedBy(s, better) ==
    LET rank(i) == 1 + Cardinality({j \in DOMAIN s :
                           \/ better[j, i]
                           \/ ~better[i, j] /\ j < i})
    IN  [p \in DOMAIN s |-> s[CHOOSE i \in DOMAIN s : rank(i) = p]]

\* s[:n]
Take(s, n) ==
    IF n >= 0 THEN SubSeq(s, 1, Min(n, Len(s)))
    ELSE SubSeq(s, 1, Max(Len(s) + n, 0))

\* leaves the list as it is
RemoveNone(s, n) == s

\* list.remove(s[n]) where s[n] is the first element equal to itself
RemoveAt(s, n) == SubSeq(s, 1, n - 1) \o SubSeq(s, n + 1, Len(s))

\* the ids of a set in increasing order
Ascending(S) ==
    [n \in 1..Cardinality(S) |-> CHOOSE x \in S : Cardinality({y \in S : y < x}) = n - 1]

RatioGreater(a, b) == a.num * b.den > b.num * a.den

\* lines 258, 466, 543: sort(key=lambda x: x.efficiency_score, reverse=True)
SortedByEfficiency(lns) ==
    SortedBy(lns, [i \in DOMAIN lns, j \in DOMAIN lns |->
                      RatioGreater(lns[i].efficiency_score, lns[j].efficiency_score)])

\* sorted by demand, largest first
SortedByDemand(sids, demand) ==
    SortedBy(sids, [i \in DOMAIN sids, j \in DOMAIN sids |->
                       demand[sids[i]] > demand[sids[j]]])

---------------------------------------------------------------------------
(* Route sequencing: lines 91-100, 261-322 *)

\* lines 91-100, in tenths of a minute: the legs, the closing leg, the layover
route_length_minutes(stops_order, stop_lookup, speed_kmh) ==
    LET leg(a, b) == travel_minutes(stop_lookup[a].lat, stop_lookup[b].lat, speed_kmh)
    IN  LayoverFactor *
        (SeqSum([i \in 1..(Len(stops_order) - 1) |-> leg(stops_order[i], stops_order[i + 1])])
         + leg(stops_order[Len(stops_order)], stops_order[1]))

\* lines 261-291 for three points of one meridian
point_to_line_distance(point, line_start, line_end) ==
    LET A == point - line_start
        C == line_end - line_start
    IN  IF C * C = 0 THEN Abs(A)
        ELSE IF A * C < 0 THEN Abs(point - line_start)
        ELSE IF A * C > C * C THEN Abs(point - line_end)
        ELSE 0

\* line 314: min() over a set returns, of the nearest stops, the one that
\* the set's iteration order h brings first
NearestOf(remaining, current, stop_lookup, h) ==
    LET far(s) == haversine_km(stop_lookup[current].lat, stop_lookup[s].lat)
    IN  CHOOSE s \in remaining :
            \A t \in remaining \ {s} :
                far(s) < far(t) \/ (far(s) = far(t) /\ h[s] < h[t])

\* lines 309-320
RECURSIVE GreedyRoute(_, _, _, _)
GreedyRoute(route, remaining, stop_lookup, h) ==
    IF remaining = {} THEN route
    ELSE LET nearest == NearestOf(remaining, route[Len(route)], stop_lookup, h)
         IN  GreedyRoute(Append(route, nearest), remaining \ {nearest}, stop_lookup, h)

\* lines 293-322
optimize_route_greedy(stop_seq, stop_lookup, h) ==
    IF Len(stop_seq) <= 2 THEN stop_seq
    ELSE GreedyRoute(<<stop_seq[1]>>, Range(stop_seq) \ {stop_seq[1]}, stop_lookup, h)

\* lines 102-116
nearest_order(stop_seq, stop_lookup, h) ==
    IF stop_seq = <<>> THEN <<>>
    ELSE GreedyRoute(<<stop_seq[1]>>, Range(stop_seq) \ {stop_seq[1]}, stop_lookup, h)

---------------------------------------------------------------------------
(* Candidate generation: build_hub_and_spoke_routes, lines 118-259 *)

\* line 123: groupby('d')['demand'].sum().to_dict()
demand_by_stop(od_matrix) ==
    [d \in {od_matrix.rows[n].d : n \in DOMAIN od_matrix.rows} |->
        SeqSum([n \in DOMAIN od_matrix.rows |->
                   IF od_matrix.rows[n].d = d THEN od_matrix.rows[n].demand ELSE 0])]

\* demand_by_stop.get(sid, 0.0)
DemandGet(demand, sid) == IF sid \in DOMAIN demand THEN demand[sid] ELSE 0

\* lines 126-128
hub_stops(demand, stop_lookup) ==
    SelectSeq(Take(SortedByDemand(Ascending(DOMAIN demand), demand), MaxHubs),
              LAMBDA sid : demand[sid] > 0 /\ sid \in DOMAIN stop_lookup)

\* line 131
source_stops(keys, stop_lookup) ==
    SelectSeq(keys, LAMBDA sid : stop_lookup[sid].kind = "source")

\* f"H_{line_id}", f"C_{line_id}", f"F_{line_id}" as numbers in the order of the strings
LineName(prefix, line_id) ==
    (CASE prefix = "C" -> 1 [] prefix = "F" -> 2 [] prefix = "H" -> 3) * 10 + line_id

\* lines 160-172, 206-217, 243-254; the efficiency score is in halves of
\* demand per tenth of a minute
CandidateLine(prefix, lns, route, g) ==
    LET cyc_min == route_length_minutes(route, g.stops, g.speed_kmh)
        coverage == SeqSum([n \in DOMAIN route |-> DemandGet(g.demand, route[n])])
    IN  [line_id |-> LineName(prefix, Len(lns)),
         stops |-> route,
         cycle_minutes |-> cyc_min,
         demand_coverage |-> coverage,
         efficiency_score |-> Ratio(coverage, Max(cyc_min, OneMinute))]

\* lines 145-146, 513-514: the destinations of a source, largest demand first
TopDestinationsOf(od_matrix, source, n) ==
    LET mine == SelectSeq(od_matrix.rows, LAMBDA r : r.o = source)
        rows == SortedBy(mine, [i \in DOMAIN mine, j \in DOMAIN mine |->
                                   mine[i].demand > mine[j].demand])
    IN  Take([m \in DOMAIN rows |-> rows[m].d], n)

\* lines 140-173
RECURSIVE DirectRoutes(_, _, _)
DirectRoutes(lns, n, g) ==
    IF n > Len(g.source_stops) THEN lns
    ELSE LET source == g.source_stops[n]
             top_dests == TopDestinationsOf(g.od, source, TopDestinations)
             route_stops == SelectSeq(<<source>> \o top_dests,
                                      LAMBDA s : s \in DOMAIN g.stops)
         IN  IF top_dests = <<>> \/ Len(route_stops) < 2
             THEN DirectRoutes(lns, n + 1, g)
             ELSE DirectRoutes(
                      Append(lns, CandidateLine("H", lns,
                                 optimize_route_greedy(route_stops, g.stops, g.h), g)),
                      n + 1, g)

\* lines 183-198
IntermediateStops(start_hub, end_hub, g) ==
    Take(SortedByDemand(
             SelectSeq(g.items,
                 LAMBDA sid :
                     /\ sid \in DOMAIN g.stops
                     /\ sid \notin {start_hub, end_hub}
                     /\ g.demand[sid] > 0
                     /\ point_to_line_distance(g.stops[sid].lat,
                            g.stops[start_hub].lat, g.stops[end_hub].lat) < NearLine),
             g.demand),
         TopIntermediate)

\* lines 176-218; i counts from 0
RECURSIVE CrossRoutes(_, _, _)
CrossRoutes(lns, i, g) ==
    IF Len(g.hubs) < 2 \/ i >= Min(MaxCrossRoutes, Len(g.hubs) - 1) THEN lns
    ELSE LET start_hub == g.hubs[i + 1]
             end_hub == g.hubs[((i + 1) % Len(g.hubs)) + 1]
             route_stops == SelectSeq(<<start_hub>> \o IntermediateStops(start_hub, end_hub, g)
                                          \o <<end_hub>>,
                                      LAMBDA s : s \in DOMAIN g.stops)
         IN  IF Len(route_stops) >= MinCrossStops
             THEN CrossRoutes(
                      Append(lns, CandidateLine("C", lns,
                                 optimize_route_greedy(route_stops, g.stops, g.h), g)),
                      i + 1, g)
             ELSE CrossRoutes(lns, i + 1, g)

\* lines 227-238
NearbyStops(hub, g) ==
    LET dist(sid) == haversine_km(g.stops[hub].lat, g.stops[sid].lat)
        near == SelectSeq(g.items,
                    LAMBDA sid :
                        /\ sid \in DOMAIN g.stops
                        /\ sid # hub
                        /\ g.demand[sid] > 0
                        /\ dist(sid) < NearHub)
    IN  Take(SortedBy(near, [i \in DOMAIN near, j \in DOMAIN near |->
                          \/ g.demand[near[i]] > g.demand[near[j]]
                          \/ /\ g.demand[near[i]] = g.demand[near[j]]
                             /\ dist(near[i]) < dist(near[j])]),
             TopNearby)

\* lines 221-255
RECURSIVE FeederRoutes(_, _, _)
FeederRoutes(lns, n, g) ==
    IF n > Len(Take(g.hubs, FeederHubs)) THEN lns
    ELSE LET hub == g.hubs[n]
             selected_nearby == NearbyStops(hub, g)
         IN  IF selected_nearby # <<>>
             THEN FeederRoutes(
                      Append(lns, CandidateLine("F", lns,
                                 optimize_route_greedy(<<hub>> \o selected_nearby,
                                                       g.stops, g.h), g)),
                      n + 1, g)
             ELSE FeederRoutes(lns, n + 1, g)

\* od_matrix['d'] of a frame without that column
KeyError(frame, col) == col \notin frame.cols

\* lines 118-259; keys is the insertion order of the dict stops, h the
\* iteration order of the sets of stop ids
GenerationInputs(stop_lookup, keys, od_matrix, speed_kmh, h) ==
    [stops |-> stop_lookup, od |-> od_matrix, demand |-> demand_by_stop(od_matrix),
     items |-> Ascending(DOMAIN demand_by_stop(od_matrix)),
     hubs |-> hub_stops(demand_by_stop(od_matrix), stop_lookup),
     source_stops |-> source_stops(keys, stop_lookup),
     speed_kmh |-> speed_kmh, h |-> h]

\* lines 140-255: the list lines before it is sorted and cut
GeneratedLines(g) == FeederRoutes(CrossRoutes(DirectRoutes(<<>>, 1, g), 0, g), 1, g)

\* cuts the list in the order of its generation
FirstLines(lns, target_lines) == Take(lns, target_lines)

\* lines 258-259
BestLines(lns, target_lines) == Take(SortedByEfficiency(lns), target_lines)

build_hub_and_spoke_routes(stop_lookup, keys, od_matrix, target_lines, speed_kmh, h) ==
    IF KeyError(od_matrix, "d") THEN Raises("KeyError")
    ELSE Completes(BestLines(
             GeneratedLines(GenerationInputs(stop_lookup, keys, od_matrix, speed_kmh, h)),
             target_lines))

---------------------------------------------------------------------------
(* Selection: optimize_routes_demand_driven, lines 503-558 *)

\* od['o'].unique(): the values in the order of their first rows
unique(s) ==
    LET first == SelectSeq([n \in DOMAIN s |-> n],
                           LAMBDA n : \A m \in 1..(n - 1) : s[m] # s[n])
    IN  [k \in DOMAIN first |-> s[first[k]]]

\* line 521
served_dests(ln, top_destinations) ==
    Cardinality({n \in DOMAIN top_destinations : Serves(ln, top_destinations[n])})

\* lines 513-527
source_routes(source, candidates, frame) ==
    LET top_destinations == TopDestinationsOf(frame, source, TopSourceDestinations)
        served(ln) == served_dests(ln, top_destinations)
        relevant_lines == SelectSeq(candidates,
                              LAMBDA ln : Serves(ln, source) /\ served(ln) > 0)
    IN  Take(SortedBy(relevant_lines,
                 [i \in DOMAIN relevant_lines, j \in DOMAIN relevant_lines |->
                     \/ served(relevant_lines[i]) > served(relevant_lines[j])
                     \/ /\ served(relevant_lines[i]) = served(relevant_lines[j])
                        /\ RatioGreater(relevant_lines[i].efficiency_score,
                                        relevant_lines[j].efficiency_score)]),
             RoutesPerSource)

\* the first route of each source, used or not
RECURSIVE FirstRoutePerSource(_, _, _, _, _)
FirstRoutePerSource(picked, n, sources, candidates, frame) ==
    IF n > Len(sources) THEN picked
    ELSE LET routes == source_routes(sources[n], candidates, frame)
         IN  FirstRoutePerSource(IF routes = <<>> THEN picked ELSE Append(picked, routes[1]),
                                 n + 1, sources, candidates, frame)

\* lines 534-539: the first route of each source that is not yet used
RECURSIVE BestRoutePerSource(_, _, _, _, _)
BestRoutePerSource(picked, n, sources, candidates, frame) ==
    IF n > Len(sources) THEN picked
    ELSE LET fresh == SelectSeq(source_routes(sources[n], candidates, frame),
                                LAMBDA ln : ln.line_id \notin LineIds(picked))
         IN  BestRoutePerSource(IF fresh = <<>> THEN picked ELSE Append(picked, fresh[1]),
                                n + 1, sources, candidates, frame)

\* lines 550-554; overlap < len(line.stops) * 0.7
LittleOverlap(ln, picked) ==
    OverlapScale * SeqSum([n \in DOMAIN picked |->
                              Cardinality(Range(ln.stops) \cap Range(picked[n].stops))])
        < OverlapLimit * Len(ln.stops)

\* lines 545-556
RECURSIVE AddRemaining(_, _, _, _)
AddRemaining(picked, n, remaining, fleet_buses) ==
    IF n > Len(remaining) \/ Len(picked) >= fleet_buses \div 2 THEN picked
    ELSE AddRemaining(IF LittleOverlap(remaining[n], picked)
                      THEN Append(picked, remaining[n]) ELSE picked,
                      n + 1, remaining, fleet_buses)

\* lines 503-558
optimize_routes_demand_driven(candidates, frame, fleet_buses) ==
    IF KeyError(frame, "o") THEN Raises("KeyError")
    ELSE LET sources == unique([n \in DOMAIN frame.rows |-> frame.rows[n].o])
             picked == BestRoutePerSource(<<>>, 1, sources, candidates, frame)
             remaining == SortedByEfficiency(
                              SelectSeq(candidates,
                                  LAMBDA ln : ln.line_id \notin LineIds(picked)))
         IN  Completes(AddRemaining(picked, 1, remaining, fleet_buses))

---------------------------------------------------------------------------
(* Selection: optimize_routes_iterative, lines 460-501 *)

\* lines 486 and 488, times 2000 x the divisor of the coverage
Improvement(new, old_cost, old_covered) ==
    CoverageWeight * CostWeight * OneCost * (new.demand_coverage.num - old_covered)
        - (new.total_cost - old_cost) * new.demand_coverage.den

\* lines 473-492: the first line of the largest improvement, as <<index, improvement>>
BestLine(gains) ==
    LET best == CHOOSE n \in DOMAIN gains :
                    /\ \A m \in DOMAIN gains : gains[m] <= gains[n]
                    /\ \A m \in 1..(n - 1) : gains[m] < gains[n]
    IN  <<best, gains[best]>>

\* lines 483-488 for every line of remaining
RoundGains(picked, old, tests) ==
    [n \in DOMAIN tests |->
        Improvement(tests[n].value,
                    IF picked = <<>> THEN 0 ELSE old.value.total_cost,
                    IF picked = <<>> THEN 0 ELSE old.value.demand_coverage.num)]

RECURSIVE IterativeRounds(_, _, _, _, _, _, _, _)

\* lines 494-499: best is <<index, improvement>>
IterativeChoice(picked, remaining, best, frame, stop_lookup, fleet_buses, k_transfers, penalty, speed_kmh) ==
    IF best[2] > 0
    THEN IterativeRounds(Append(picked, remaining[best[1]]),
                         SelectSeq(remaining, LAMBDA ln : ln # remaining[best[1]]),
                         frame, stop_lookup, fleet_buses, k_transfers, penalty, speed_kmh)
    ELSE Completes(picked)

\* lines 473-499: old and tests are the evaluations of lines 484 and 479
IterativeRound(picked, remaining, old, tests, frame, stop_lookup, fleet_buses, k_transfers, penalty, speed_kmh) ==
    IF HasRaised(old) \/ \E n \in DOMAIN tests : HasRaised(tests[n])
    THEN Raises("KeyError")
    ELSE IterativeChoice(picked, remaining, BestLine(RoundGains(picked, old, tests)),
                         frame, stop_lookup, fleet_buses, k_transfers, penalty, speed_kmh)

\* lines 472-499
IterativeRounds(picked, remaining, frame, stop_lookup, fleet_buses, k_transfers, penalty, speed_kmh) ==
    IF remaining = <<>> THEN Completes(picked)
    ELSE IterativeRound(
             picked, remaining,
             IF picked = <<>> THEN Completes(EmptyResult)
             ELSE evaluate_solution_improved(picked, frame, stop_lookup, fleet_buses,
                                             k_transfers, penalty, speed_kmh),
             [n \in DOMAIN remaining |->
                 evaluate_solution_improved(Append(picked, remaining[n]), frame,
                     stop_lookup, fleet_buses, k_transfers, penalty, speed_kmh)],
             frame, stop_lookup, fleet_buses, k_transfers, penalty, speed_kmh)

\* scans the candidates in the caller's order
IterativeInCallerOrder(candidates, frame, stop_lookup, fleet_buses, k_transfers, penalty, speed_kmh) ==
    IterativeRounds(<<>>, candidates, frame, stop_lookup,
                    fleet_buses, k_transfers, penalty, speed_kmh)

\* lines 460-501; the sort of line 466 is in place
optimize_routes_iterative(candidates, frame, stop_lookup, fleet_buses, k_transfers, penalty, speed_kmh) ==
    IterativeRounds(<<>>, SortedByEfficiency(candidates), frame, stop_lookup,
                    fleet_buses, k_transfers, penalty, speed_kmh)

---------------------------------------------------------------------------
(* Selection: greedy_select_lines, lines 564-600 *)

\* the direct travel of an unreachable pair without the transfer penalty
CostRowNoPenalty(t, r, lns, stop_lookup, fleet_buses, k_transfers, penalty, speed_kmh) ==
    LET best == BestOf(r, lns, stop_lookup, fleet_buses, k_transfers, penalty, speed_kmh)
    IN  IF best.status = "raised" THEN [t EXCEPT !.status = "raised"]
        ELSE IF IsFinite(best.result)
        THEN [t EXCEPT !.row = @ + 1, !.total = @ + r.demand * best.result]
        ELSE IF r.o \notin DOMAIN stop_lookup \/ r.d \notin DOMAIN stop_lookup
        THEN [t EXCEPT !.status = "raised"]
        ELSE [t EXCEPT !.row = @ + 1,
                       !.total = @ + r.demand *
                           travel_minutes(stop_lookup[r.o].lat, stop_lookup[r.d].lat,
                                          speed_kmh)]

\* lines 578-584: one OD row of total_cost; t is [status, row, total]
CostRow(t, r, lns, stop_lookup, fleet_buses, k_transfers, penalty, speed_kmh) ==
    LET best == BestOf(r, lns, stop_lookup, fleet_buses, k_transfers, penalty, speed_kmh)
    IN  IF best.status = "raised" THEN [t EXCEPT !.status = "raised"]
        ELSE IF IsFinite(best.result)
        THEN [t EXCEPT !.row = @ + 1, !.total = @ + r.demand * best.result]
        ELSE IF r.o \notin DOMAIN stop_lookup \/ r.d \notin DOMAIN stop_lookup
        THEN [t EXCEPT !.status = "raised"]
        ELSE [t EXCEPT !.row = @ + 1,
                       !.total = @ + r.demand *
                           (travel_minutes(stop_lookup[r.o].lat, stop_lookup[r.d].lat,
                                           speed_kmh) + penalty)]

\* lines 577-584
RECURSIVE CostRows(_, _, _, _, _, _, _, _)
CostRows(t, rows, lns, stop_lookup, fleet_buses, k_transfers, penalty, speed_kmh) ==
    IF t.status = "raised" \/ t.row = Len(rows) THEN t
    ELSE CostRows(CostRow(t, rows[t.row + 1], lns, stop_lookup, fleet_buses,
                          k_transfers, penalty, speed_kmh),
                  rows, lns, stop_lookup, fleet_buses, k_transfers, penalty, speed_kmh)

\* lines 570-585: total_cost(lines_subset), in halves
total_cost(lines_subset, frame, stop_lookup, fleet_buses, k_transfers, penalty, speed_kmh) ==
    IF lines_subset = <<>> THEN Completes(Sentinel)
    ELSE LET t == CostRows([status |-> "running", row |-> 0, total |-> 0], frame.rows,
                           lines_subset, stop_lookup, fleet_buses, k_transfers,
                           penalty, speed_kmh)
         IN  IF t.status = "raised" THEN Raises("KeyError") ELSE Completes(t.total)

\* takes the first line that lowers the cost
CheapestLineFirstFit(base_cost, costs) ==
    IF \E n \in DOMAIN costs : costs[n] < base_cost
    THEN CHOOSE n \in DOMAIN costs :
             /\ costs[n] < base_cost
             /\ \A m \in 1..(n - 1) : ~(costs[m] < base_cost)
    ELSE 0

\* lines 591-595: the index of best_line, 0 for None
CheapestLine(base_cost, costs) ==
    IF \E n \in DOMAIN costs : costs[n] < base_cost
    THEN CHOOSE n \in DOMAIN costs :
             /\ \A m \in DOMAIN costs : costs[n] <= costs[m]
             /\ \A m \in 1..(n - 1) : costs[n] < costs[m]
    ELSE 0

RECURSIVE GreedyRounds(_, _, _, _, _, _, _, _)

\* lines 596-599
GreedyChoice(picked, remaining, best, frame, stop_lookup, fleet_buses, k_transfers, penalty, speed_kmh) ==
    IF best # 0
    THEN GreedyRounds(Append(picked, remaining[best]), RemoveAt(remaining, best),
                      frame, stop_lookup, fleet_buses, k_transfers, penalty, speed_kmh)
    ELSE Completes(picked)

\* lines 589-599: base is total_cost(selected), tests total_cost(selected + [ln])
GreedyRound(picked, remaining, base, tests, frame, stop_lookup, fleet_buses, k_transfers, penalty, speed_kmh) ==
    IF HasRaised(base) \/ \E n \in DOMAIN tests : HasRaised(tests[n])
    THEN Raises("KeyError")
    ELSE GreedyChoice(picked, remaining,
                      CheapestLine(base.value, [n \in DOMAIN tests |-> tests[n].value]),
                      frame, stop_lookup, fleet_buses, k_transfers, penalty, speed_kmh)

\* lines 587-599
GreedyRounds(picked, remaining, frame, stop_lookup, fleet_buses, k_transfers, penalty, speed_kmh) ==
    IF remaining = <<>> THEN Completes(picked)
    ELSE GreedyRound(
             picked, remaining,
             total_cost(picked, frame, stop_lookup, fleet_buses, k_transfers,
                        penalty, speed_kmh),
             [n \in DOMAIN remaining |->
                 total_cost(Append(picked, remaining[n]), frame, stop_lookup,
                            fleet_buses, k_transfers, penalty, speed_kmh)],
             frame, stop_lookup, fleet_buses, k_transfers, penalty, speed_kmh)

\* lines 564-600
greedy_select_lines(frame, lns, stop_lookup, fleet_buses, k_transfers, penalty, speed_kmh) ==
    GreedyRounds(<<>>, lns, frame, stop_lookup, fleet_buses, k_transfers, penalty, speed_kmh)

---------------------------------------------------------------------------
(* Inputs of the model *)

\* the speeds and fleet sizes whose quotients are whole minutes
Exact(num, den) == num % den = 0

Speeds == {v \in 0..MaxSpeed :
              Exact(MinutesPerHour, Max(v, SpeedFloor))}

Fleets == {f \in 0..MaxFleet :
              \A n \in 1..MaxLines :
                  f < n \/ Exact(MinutesPerHour * n, 2 * f)}

TopSpeed == CHOOSE v \in Speeds : \A u \in Speeds : u <= v

TopFleet == CHOOSE f \in Fleets : \A g \in Fleets : g <= f

Penalties == {5 * p : p \in 0..MaxPenalty}

\* stops 1, 2, 3, ... on a meridian, 1, 2, 3, ... length units apart
StopLat(s) == (s * (s - 1)) \div 2

Registry == [s \in StopIds |-> Stop(StopLat(s), IF s = 1 THEN "source" ELSE "destination")]

RECURSIVE DistinctSeqs(_, _)
DistinctSeqs(S, n) ==
    IF n = 0 THEN {<<>>}
    ELSE {Append(q, x) : q \in DistinctSeqs(S, n - 1), x \in S} \cap
         {q \in UNION {[1..m -> S] : m \in 1..n} :
              \A i, j \in DOMAIN q : i # j => q[i] # q[j]}

\* the stop sequences a line can have
StopSeqs == UNION {DistinctSeqs(StopIds, n) : n \in 2..MaxLineLen}

\* line lists with line ids 1, 2, ... in list order
LineLists ==
    UNION {{[n \in 1..m |-> Line(n, q[n])] :
               q \in {r \in [1..m -> StopSeqs] :
                         SeqSum([n \in 1..m |-> Len(r[n])]) <= MaxLineStops}} :
           m \in 0..MaxLines}

Idle == [status |-> "idle", pq |-> {}, dist |-> <<>>, result |-> Inf]

NoAcc == [status |-> "idle", row |-> 0, total_cost |-> 0, total_demand |-> 0,
          covered_demand |-> 0, accessible_pairs |-> 0, router_calls |-> 0]

NoQuery == [o |-> 0, d |-> 0, wait_by_line |-> <<>>]

SourceIds == {sid \in StopIds : Registry[sid].kind = "source"}

DestinationIds == {sid \in StopIds : Registry[sid].kind = "destination"}

ODRows == {ODRow(o, d, dem) : o \in SourceIds, d \in DestinationIds, dem \in 0..MaxDemand}

\* OD matrices with one row for a pair (o, d)
ODFrames ==
    {DataFrame(rows) :
        rows \in {q \in UNION {[1..m -> ODRows] : m \in 0..MaxOD} :
                     \A i, j \in DOMAIN q :
                         i # j => <<q[i].o, q[i].d>> # <<q[j].o, q[j].d>>}}

EvalLineLists ==
    {lns \in LineLists :
        SeqSum([n \in DOMAIN lns |-> Len(lns[n].stops)]) <= MaxEvalLineStops}

NoOd == [cols |-> {}, rows |-> <<>>]

\* main is not running
NoMain == src = <<>> /\ dst = <<>> /\ cands = <<>> /\ selected = <<>>

\* destination frames: distinct stops in the order of their ids
DestinationFrames ==
    {[n \in DOMAIN q |-> DestinationRow(q[n], StopLat(q[n]))] :
        q \in {Ascending(S) : S \in {T \in SUBSET StopIds :
                                        Cardinality(T) <= MaxDestinations}}}

\* source frames over the first stops, in any order, whose demands split
\* into whole shares over nd destinations
SourceFrames(nd) ==
    UNION {{[n \in DOMAIN q |-> SourceRow(q[n], StopLat(q[n]), share[n] * Max(nd, 1))] :
               q \in DistinctSeqs(1..MaxSources, m), share \in [1..m -> 0..MaxShare]} :
           m \in 0..MaxSources}

\* two iteration orders of a set of stop ids, one the reverse of the other:
\* of two stops equally near, either can come first
HashOrders ==
    {[s \in StopIds |-> s], [s \in StopIds |-> NStops + 1 - s]}

Algorithms == {"genetic", "greedy", "both"}

---------------------------------------------------------------------------
(* The router, one loop iteration at a time *)

RouterInit ==
    /\ pc = "router_call"
    /\ stops = Registry
    /\ lines \in LineLists
    /\ od = NoOd
    /\ \E k \in 0..MaxK, p \in Penalties :
           params = [fleet_buses |-> TopFleet, k_transfers |-> k,
                     transfer_penalty_min |-> p, speed_kmh |-> TopSpeed]
    /\ \E o \in StopIds, d \in StopIds :
           query = [o |-> o, d |-> d,
                    wait_by_line |-> wait_by_line_of(lines, params.fleet_buses)]
    /\ search = Idle
    /\ acc = NoAcc
    /\ result = Inf
    /\ NoMain

RouterFrame == UNCHANGED <<stops, lines, od, params, query, acc, src, dst, cands, selected>>

StartOf == RouterStart(query.o, query.d, lines, stops, query.wait_by_line)

\* lines 379-384: nothing to search
RouterReturnEarly ==
    /\ pc = "router_call"
    /\ StartOf.status # "running"
    /\ search' = StartOf
    /\ result' = search'.result
    /\ pc' = IF StartOf.status = "raised" THEN "router_raised" ELSE "router_done"
    /\ RouterFrame

\* lines 385-393
RouterSeed ==
    /\ pc = "router_call"
    /\ StartOf.status = "running"
    /\ search' = StartOf
    /\ pc' = "router_loop"
    /\ UNCHANGED result
    /\ RouterFrame

StepOf(st) ==
    RouterStep(st, query.d, lines, stops, query.wait_by_line,
               params.transfer_penalty_min, params.k_transfers, params.speed_kmh)

\* lines 396-398: a heap entry whose label was lowered since it was pushed
RouterPopStale ==
    /\ pc = "router_loop"
    /\ search.pq # {}
    /\ IsStale(heappop(search.pq), search.dist)
    /\ search' = StepOf(search)
    /\ UNCHANGED <<pc, result>>
    /\ RouterFrame

\* lines 399-417: a popped state that is not at d
RouterPopExpand ==
    /\ pc = "router_loop"
    /\ search.pq # {}
    /\ ~IsStale(heappop(search.pq), search.dist)
    /\ LET next == StepOf(search)
       IN  next.status = "running" /\ search' = next
    /\ UNCHANGED <<pc, result>>
    /\ RouterFrame

\* lines 400-401: the first popped state at d
RouterPopArrived ==
    /\ pc = "router_loop"
    /\ search.pq # {}
    /\ LET next == StepOf(search)
       IN  next.status = "returned" /\ search' = next
    /\ result' = search'.result
    /\ pc' = "router_done"
    /\ RouterFrame

\* line 418: the heap ran empty
RouterExhausted ==
    /\ pc = "router_loop"
    /\ search.pq = {}
    /\ search' = StepOf(search)
    /\ result' = search'.result
    /\ pc' = "router_done"
    /\ RouterFrame

RouterNext ==
    \/ RouterReturnEarly
    \/ RouterSeed
    \/ RouterPopStale
    \/ RouterPopExpand
    \/ RouterPopArrived
    \/ RouterExhausted

SpecRouter == RouterInit /\ [][RouterNext]_vars

---------------------------------------------------------------------------
(* The evaluator, one OD row at a time *)

EvalInit ==
    /\ pc = "eval_call"
    /\ stops = Registry
    /\ lines \in EvalLineLists
    /\ od \in ODFrames
    /\ \E k \in 0..MaxK, p \in Penalties, f \in {0, TopFleet} :
           params = [fleet_buses |-> f, k_transfers |-> k,
                     transfer_penalty_min |-> p, speed_kmh |-> TopSpeed]
    /\ query = NoQuery
    /\ search = Idle
    /\ acc = NoAcc
    /\ result = Inf
    /\ NoMain

EvalFrame == UNCHANGED <<stops, lines, od, params, query, search, src, dst, cands, selected>>

\* lines 426-427
EvalReturnEmpty ==
    /\ pc = "eval_call"
    /\ NoLines(lines)
    /\ result' = EmptyResult
    /\ pc' = "eval_done"
    /\ UNCHANGED acc
    /\ EvalFrame

\* lines 429-436
EvalSetup ==
    /\ pc = "eval_call"
    /\ ~NoLines(lines)
    /\ acc' = EvalStart(lines, params.fleet_buses)
    /\ pc' = IF acc'.status = "raised" THEN "eval_raised" ELSE "eval_loop"
    /\ UNCHANGED result
    /\ EvalFrame

RowOf(a) ==
    EvalRow(a, od.rows[a.row + 1], lines, stops, params.fleet_buses, params.k_transfers,
            params.transfer_penalty_min, params.speed_kmh)

\* lines 438-447: a row whose pair the router reaches
EvalRowFinite ==
    /\ pc = "eval_loop"
    /\ acc.row < Len(od.rows)
    /\ LET next == RowOf(acc)
       IN  /\ next.status = "running"
           /\ next.accessible_pairs > acc.accessible_pairs
           /\ acc' = next
    /\ UNCHANGED <<pc, result>>
    /\ EvalFrame

\* lines 438-443, 448-452: a row whose pair the router does not reach
EvalRowFallback ==
    /\ pc = "eval_loop"
    /\ acc.row < Len(od.rows)
    /\ LET next == RowOf(acc)
       IN  /\ next.status = "raised" \/ next.accessible_pairs = acc.accessible_pairs
           /\ acc' = next
    /\ pc' = IF acc'.status = "raised" THEN "eval_raised" ELSE pc
    /\ UNCHANGED result
    /\ EvalFrame

\* lines 454-458
EvalReturn ==
    /\ pc = "eval_loop"
    /\ acc.row = Len(od.rows)
    /\ result' = EvalResult(acc)
    /\ pc' = "eval_done"
    /\ UNCHANGED acc
    /\ EvalFrame

EvalNext ==
    \/ EvalReturnEmpty
    \/ EvalSetup
    \/ EvalRowFinite
    \/ EvalRowFallback
    \/ EvalReturn

SpecEval == EvalInit /\ [][EvalNext]_vars

---------------------------------------------------------------------------
(* The command-line pipeline: main, lines 604-715 *)

MainInit ==
    /\ pc = "main_load"
    /\ dst \in DestinationFrames
    /\ src \in SourceFrames(Len(dst))
    /\ \E f \in {0, TopFleet}, t \in 0..MaxTargetLines, v \in {0, TopSpeed},
          a \in Algorithms :
           params = [fleet_buses |-> f, target_lines |-> t, k_transfers |-> MaxK,
                     transfer_penalty_min |-> 5 * MaxPenalty, speed_kmh |-> v,
                     algorithm |-> a]
    /\ stops = <<>>
    /\ od = NoOd
    /\ cands = <<>>
    /\ selected = <<>>
    /\ result = <<>>
    /\ lines = <<>>
    /\ query = NoQuery
    /\ search = Idle
    /\ acc = NoAcc

MainFrame == UNCHANGED <<lines, query, search, acc, src, dst, params>>

\* lines 622-628
MainLoad ==
    /\ pc = "main_load"
    /\ od' = build_equal_split_od(src, dst)
    /\ stops' = build_stops(src, dst)
    /\ pc' = "main_candidates"
    /\ UNCHANGED <<cands, selected, result>>
    /\ MainFrame

CandidatesOf(h) ==
    build_hub_and_spoke_routes(stops, stop_keys(src, dst), od, params.target_lines,
                               params.speed_kmh, h)

\* lines 632-633
MainCandidates ==
    /\ pc = "main_candidates"
    /\ \E h \in HashOrders :
           LET out == CandidatesOf(h)
           IN  /\ ~HasRaised(out)
               /\ cands' = out.value
    /\ pc' = "main_select"
    /\ UNCHANGED <<stops, od, selected, result>>
    /\ MainFrame

\* line 632: the call raises
MainCandidatesRaise ==
    /\ pc = "main_candidates"
    /\ \E h \in HashOrders : HasRaised(CandidatesOf(h))
    /\ pc' = "main_raised"
    /\ UNCHANGED <<stops, od, cands, selected, result>>
    /\ MainFrame

EvaluationOf(lns) ==
    evaluate_solution_improved(lns, od, stops, params.fleet_buses, params.k_transfers,
                               params.transfer_penalty_min, params.speed_kmh)

GreedyCostOf(lns) ==
    total_cost(lns, od, stops, params.fleet_buses, params.k_transfers,
               params.transfer_penalty_min, params.speed_kmh)

IterativeOf ==
    optimize_routes_iterative(cands, od, stops, params.fleet_buses, params.k_transfers,
                              params.transfer_penalty_min, params.speed_kmh)

\* lines 636-651
MainDemandDriven ==
    /\ pc = "main_select"
    /\ params.algorithm \in {"genetic", "both"}
    /\ LET out == optimize_routes_demand_driven(cands, od, params.fleet_buses)
       IN  IF HasRaised(out)
           THEN pc' = "main_raised" /\ UNCHANGED <<selected, result>>
           ELSE LET metrics == EvaluationOf(out.value)
                IN  /\ selected' = out.value
                    /\ IF HasRaised(metrics)
                       THEN pc' = "main_raised" /\ UNCHANGED result
                       ELSE /\ result' = <<metrics.value>>
                            /\ pc' = IF params.algorithm = "both"
                                     THEN "main_compare" ELSE "main_report"
    /\ UNCHANGED <<stops, od, cands>>
    /\ MainFrame

\* lines 653-659
MainIterative ==
    /\ pc = "main_select"
    /\ params.algorithm = "greedy"
    /\ cands' = SortedByEfficiency(cands)
    /\ LET out == IterativeOf
       IN  IF HasRaised(out)
           THEN pc' = "main_raised" /\ UNCHANGED selected
           ELSE selected' = out.value /\ pc' = "main_report"
    /\ UNCHANGED <<stops, od, result>>
    /\ MainFrame

\* lines 679-681 divide by the iterative cost, coverage and efficiency
DividesByZero(metrics) ==
    \/ metrics.total_cost = 0
    \/ metrics.demand_coverage.num = 0
    \/ metrics.efficiency.num = 0

\* lines 661-681
MainCompare ==
    /\ pc = "main_compare"
    /\ cands' = SortedByEfficiency(cands)
    /\ LET out == IterativeOf
       IN  IF HasRaised(out)
           THEN pc' = "main_raised" /\ UNCHANGED result
           ELSE LET metrics == EvaluationOf(out.value)
                IN  IF HasRaised(metrics)
                    THEN pc' = "main_raised" /\ UNCHANGED result
                    ELSE /\ result' = Append(result, metrics.value)
                         /\ pc' = IF DividesByZero(metrics.value)
                                  THEN "main_raised" ELSE "main_report"
    /\ UNCHANGED <<stops, od, selected>>
    /\ MainFrame

\* lines 684-715
MainReport ==
    /\ pc = "main_report"
    /\ pc' = "main_done"
    /\ UNCHANGED <<stops, od, cands, selected, result>>
    /\ MainFrame

MainNext ==
    \/ MainLoad
    \/ MainCandidates
    \/ MainCandidatesRaise
    \/ MainDemandDriven
    \/ MainIterative
    \/ MainCompare
    \/ MainReport

SpecMain == MainInit /\ [][MainNext]_vars

---------------------------------------------------------------------------
(* Candidate generation over stops that may share a place *)

\* a stop is at its own place or at the place of stop 1
Sites(sid) == {StopLat(1), StopLat(sid)}

\* the places of the stops of the id sequence q
Placements(q) ==
    {lat \in [DOMAIN q -> {StopLat(s) : s \in StopIds}] :
        \A n \in DOMAIN q : lat[n] \in Sites(q[n])}

SitedDestinations ==
    UNION {{[n \in DOMAIN q |-> DestinationRow(q[n], lat[n])] : lat \in Placements(q)} :
           q \in {Ascending(S) : S \in {T \in SUBSET StopIds :
                                           Cardinality(T) <= MaxDestinations}}}

SitedSources(nd) ==
    UNION {{[n \in DOMAIN q |-> SourceRow(q[n], lat[n], share[n] * Max(nd, 1))] :
               share \in [DOMAIN q -> 0..MaxShare], lat \in Placements(q)} :
           q \in UNION {DistinctSeqs(1..MaxSources, m) : m \in 0..MaxSources}}

CandidatesInit ==
    /\ pc = "main_load"
    /\ dst \in SitedDestinations
    /\ src \in SitedSources(Len(dst))
    /\ \E t \in 1..MaxTargetLines :
           params = [fleet_buses |-> TopFleet, target_lines |-> t, k_transfers |-> MaxK,
                     transfer_penalty_min |-> 5 * MaxPenalty, speed_kmh |-> TopSpeed,
                     algorithm |-> "genetic"]
    /\ stops = <<>>
    /\ od = NoOd
    /\ cands = <<>>
    /\ selected = <<>>
    /\ result = <<>>
    /\ lines = <<>>
    /\ query = NoQuery
    /\ search = Idle
    /\ acc = NoAcc

\* lines 622-633
CandidatesNext ==
    \/ MainLoad
    \/ MainCandidates
    \/ MainCandidatesRaise

SpecCandidates == CandidatesInit /\ [][CandidatesNext]_vars


---------------------------------------------------------------------------
(* Candidate generation over many destinations *)

\* destination frames over the stops 1..MaxHubStops, in the order of their ids
ManyDestinations ==
    {[n \in DOMAIN q |-> DestinationRow(q[n], StopLat(q[n]))] :
        q \in {Ascending(S) : S \in SUBSET (1..MaxHubStops)}}

\* at most one source
OneSource(nd) ==
    {<<>>} \cup {<<SourceRow(sid, StopLat(sid), share * Max(nd, 1))>> :
                    sid \in 1..MaxHubStops, share \in 0..MaxShare}

HubsInit ==
    /\ pc = "main_load"
    /\ dst \in ManyDestinations
    /\ src \in OneSource(Len(dst))
    /\ \E t \in 1..MaxTargetLines :
           params = [fleet_buses |-> TopFleet, target_lines |-> t, k_transfers |-> MaxK,
                     transfer_penalty_min |-> 5 * MaxPenalty, speed_kmh |-> TopSpeed,
                     algorithm |-> "genetic"]
    /\ stops = <<>>
    /\ od = NoOd
    /\ cands = <<>>
    /\ selected = <<>>
    /\ result = <<>>
    /\ lines = <<>>
    /\ query = NoQuery
    /\ search = Idle
    /\ acc = NoAcc

SpecHubs == HubsInit /\ [][CandidatesNext]_vars

---------------------------------------------------------------------------
(* The selection policies, each called twice on one candidate pool *)

\* stop sequences of candidate lines: two sources, two destinations
SelectRoutes == {<<1, 3>>, <<2, 4>>, <<3, 4>>, <<1, 3, 4>>}

\* OD matrices from the stops 1 and 2 to the stops 3 and 4
SelectFrames ==
    {DataFrame(rows) :
        rows \in {q \in UNION {[1..m -> {ODRow(o, d, dem) : o \in 1..2, d \in 3..4,
                                             dem \in {0, OneDemand}}] : m \in 0..MaxOD} :
                     \A i, j \in DOMAIN q :
                         i # j => <<q[i].o, q[i].d>> # <<q[j].o, q[j].d>>}}

\* a pool as lines 160-172 build it: the coverage and the efficiency of a
\* line come from the OD matrix
PoolOf(routes, frame) ==
    LET g == [stops |-> Registry, demand |-> demand_by_stop(frame), speed_kmh |-> TopSpeed]
    IN  [n \in DOMAIN routes |-> CandidateLine("H", SubSeq(routes, 1, n - 1), routes[n], g)]

Policies == {"iterative", "demand_driven", "greedy"}

SelectPenalties == {5 * MaxPenalty, 5 * MaxSelectPenalty}

SelectInit ==
    /\ pc = "select_first"
    /\ stops = Registry
    /\ od \in SelectFrames
    /\ \E routes \in UNION {DistinctSeqs(SelectRoutes, m) : m \in 0..MaxPool} :
           cands = PoolOf(routes, od)
    /\ \E f \in {1, TopFleet}, p \in SelectPenalties, a \in Policies :
           params = [fleet_buses |-> f, k_transfers |-> MaxK, transfer_penalty_min |-> p,
                     speed_kmh |-> TopSpeed, policy |-> a]
    /\ selected = <<>>
    /\ result = <<>>
    /\ lines = <<>>
    /\ query = NoQuery
    /\ search = Idle
    /\ acc = NoAcc
    /\ src = <<>>
    /\ dst = <<>>

SelectFrame == UNCHANGED <<stops, lines, od, params, query, search, acc, src, dst>>

SelectCalled == pc \in {"select_first", "select_again"}

\* the call returns or raises; a returned selection is evaluated as main
\* evaluates it, lines 641 and 656
SelectReturn(out) ==
    /\ selected' = IF HasRaised(out) THEN <<>> ELSE out.value
    /\ result' = Append(result,
                     IF HasRaised(out) THEN [status |-> "raised"]
                     ELSE [status |-> "returned", selected |-> out.value,
                           metrics |-> EvaluationOf(out.value)])
    /\ pc' = IF pc = "select_first" THEN "select_again" ELSE "select_done"

\* lines 460-501; the candidate list is sorted in place
SelectIterative ==
    /\ SelectCalled
    /\ params.policy = "iterative"
    /\ cands' = SortedByEfficiency(cands)
    /\ SelectReturn(IterativeOf)
    /\ SelectFrame

\* lines 503-558
SelectDemandDriven ==
    /\ SelectCalled
    /\ params.policy = "demand_driven"
    /\ SelectReturn(optimize_routes_demand_driven(cands, od, params.fleet_buses))
    /\ UNCHANGED cands
    /\ SelectFrame

\* lines 564-600
SelectGreedy ==
    /\ SelectCalled
    /\ params.policy = "greedy"
    /\ SelectReturn(greedy_select_lines(od, cands, stops, params.fleet_buses,
                        params.k_transfers, params.transfer_penalty_min,
                        params.speed_kmh))
    /\ UNCHANGED cands
    /\ SelectFrame

SelectNext ==
    \/ SelectIterative
    \/ SelectDemandDriven
    \/ SelectGreedy

SpecSelect == SelectInit /\ [][SelectNext]_vars

---------------------------------------------------------------------------
(* The pipeline over destinations that carry demand values *)

\* load_destinations, lines 61-68: a row of the destinations frame with its
\* demand column
DemandedRow(stop_id, lat, demand) == [stop_id |-> stop_id, lat |-> lat, demand |-> demand]

\* the demand values of dem attached to the rows of frame
WithDemand(frame, dem) ==
    [n \in DOMAIN frame |-> DemandedRow(frame[n].stop_id, frame[n].lat, dem[n])]

DestinationDemands == {0, 9}

\* destination frames whose rows may name a stop more than once
DemandedDestinations ==
    UNION {{WithDemand([n \in DOMAIN q |-> DestinationRow(q[n], StopLat(q[n]))], dem) :
               dem \in [DOMAIN q -> DestinationDemands]} :
           q \in {r \in UNION {[1..m -> StopIds] : m \in 0..MaxDestinations} :
                     \A i, j \in DOMAIN r : i < j => r[i] <= r[j]}}

BlindInit ==
    /\ pc = "main_load"
    /\ dst \in DemandedDestinations
    /\ src \in SourceFrames(Len(dst))
    /\ \E a \in Algorithms :
           params = [fleet_buses |-> TopFleet, target_lines |-> MaxTargetLines,
                     k_transfers |-> MaxK, transfer_penalty_min |-> 5 * MaxPenalty,
                     speed_kmh |-> TopSpeed, algorithm |-> a]
    /\ stops = <<>>
    /\ od = NoOd
    /\ cands = <<>>
    /\ selected = <<>>
    /\ result = <<>>
    /\ lines = <<>>
    /\ query = NoQuery
    /\ search = Idle
    /\ acc = NoAcc

SpecBlind == BlindInit /\ [][MainNext]_vars


---------------------------------------------------------------------------
(* The selection policies on pools whose lines serve both sources *)

SharedRoutes == {<<1, 2, 3>>, <<2, 1, 4>>, <<1, 3>>, <<3, 4>>}

SharedInit ==
    /\ pc = "select_first"
    /\ stops = Registry
    /\ od \in SelectFrames
    /\ \E routes \in UNION {DistinctSeqs(SharedRoutes, m) : m \in 0..MaxPool} :
           cands = PoolOf(routes, od)
    /\ \E f \in {1, TopFleet}, a \in Policies :
           params = [fleet_buses |-> f, k_transfers |-> MaxK,
                     transfer_penalty_min |-> 5 * MaxPenalty,
                     speed_kmh |-> TopSpeed, policy |-> a]
    /\ selected = <<>>
    /\ result = <<>>
    /\ lines = <<>>
    /\ query = NoQuery
    /\ search = Idle
    /\ acc = NoAcc
    /\ src = <<>>
    /\ dst = <<>>

SpecShared == SharedInit /\ [][SelectNext]_vars

---------------------------------------------------------------------------
(* A line list evaluated, extended by one line, and evaluated again *)

\* the routes of the line that is added
AddedRoutes == UNION {DistinctSeqs(StopIds, n) : n \in 2..MaxAddedLen}

\* OD matrices whose rows all have demand
DemandFrames ==
    {frame \in ODFrames : \A n \in DOMAIN frame.rows : frame.rows[n].demand > 0}

ExtendInit ==
    /\ pc = "extend_first"
    /\ stops = Registry
    /\ lines \in EvalLineLists \ {<<>>}
    /\ od \in DemandFrames
    /\ \E k \in 0..MaxK :
           params = [fleet_buses |-> TopFleet, k_transfers |-> k,
                     transfer_penalty_min |-> 5 * MaxPenalty, speed_kmh |-> TopSpeed]
    /\ result = <<>>
    /\ query = NoQuery
    /\ search = Idle
    /\ acc = NoAcc
    /\ NoMain

ExtendFrame == UNCHANGED <<stops, od, params, query, search, acc, src, dst, cands, selected>>

\* evaluate_solution_improved(selected, ...), lines 422-458
ExtendEvaluate ==
    /\ pc = "extend_first"
    /\ result' = <<EvaluationOf(lines)>>
    /\ pc' = "extend_add"
    /\ UNCHANGED lines
    /\ ExtendFrame

\* evaluate_solution_improved(selected + [line], ...), lines 478-480;
\* the added line has a line id of its own
ExtendAdd ==
    /\ pc = "extend_add"
    /\ \E route \in AddedRoutes :
           /\ lines' = Append(lines, Line(Len(lines) + 1, route))
           /\ result' = Append(result,
                  evaluate_solution_improved(lines', od, stops, params.fleet_buses,
                      params.k_transfers, params.transfer_penalty_min, params.speed_kmh))
    /\ pc' = "extend_done"
    /\ ExtendFrame

ExtendNext ==
    \/ ExtendEvaluate
    \/ ExtendAdd

SpecExtend == ExtendInit /\ [][ExtendNext]_vars

---------------------------------------------------------------------------
(* The loops: the router search, and the selection loops round by round *)

\* the line lists a selection loop can evaluate: the lines of the pool in
\* any order, none twice
Arrangements(pool) ==
    UNION {{[i \in 1..n |-> pool[q[i]]] : q \in DistinctSeqs(DOMAIN pool, n)} :
           n \in 0..Len(pool)}

\* evaluate_solution_improved (lines 479-480, 484-485) or total_cost (lines
\* 590, 593) of every such list.  The stops, the OD matrix and the
\* parameters do not change during a call, so the value of an evaluation
\* depends on the line list only; search.evaluated holds these values.
EvaluationsOf(pool) ==
    [lns \in Arrangements(pool) |->
        IF params.policy = "iterative"
        THEN IF lns = <<>> THEN Completes(EmptyResult) ELSE EvaluationOf(lns)
        ELSE GreedyCostOf(lns)]

\* the evaluations of one round: of selected, and of selected + [line] for
\* every line of remaining
RoundEvaluations ==
    [old |-> search.evaluated[selected],
     tests |-> [n \in DOMAIN lines |-> search.evaluated[Append(selected, lines[n])]]]

\* lines 473-494 and 589-596: whether the round raises, and the index in
\* remaining of the line it adds, 0 if it adds none
RoundOutcome ==
    IF lines = <<>> THEN [raised |-> FALSE, pick |-> 0]
    ELSE LET e == RoundEvaluations
         IN  IF HasRaised(e.old) \/ \E n \in DOMAIN e.tests : HasRaised(e.tests[n])
             THEN [raised |-> TRUE, pick |-> 0]
             ELSE IF params.policy = "iterative"
             THEN LET best == BestLine(RoundGains(selected, e.old, e.tests))
                  IN  [raised |-> FALSE, pick |-> IF best[2] > 0 THEN best[1] ELSE 0]
             ELSE [raised |-> FALSE,
                   pick |-> CheapestLine(e.old.value,
                                [n \in DOMAIN e.tests |-> e.tests[n].value])]

RoundsInit ==
    /\ pc = "rounds_call"
    /\ stops = Registry
    /\ od \in SelectFrames
    /\ \E routes \in UNION {DistinctSeqs(SelectRoutes, m) : m \in 0..MaxPool} :
           cands = PoolOf(routes, od)
    /\ \E f \in {1, TopFleet}, a \in {"iterative", "greedy"} :
           params = [fleet_buses |-> f, k_transfers |-> MaxK,
                     transfer_penalty_min |-> 5 * MaxPenalty,
                     speed_kmh |-> TopSpeed, policy |-> a]
    /\ search = [evaluated |-> EvaluationsOf(cands)]
    /\ selected = <<>>
    /\ lines = <<>>
    /\ result = <<>>
    /\ query = NoQuery
    /\ acc = NoAcc
    /\ src = <<>>
    /\ dst = <<>>

RoundsFrame == UNCHANGED <<stops, od, params, query, search, result, src, dst>>

\* lines 466-469 and 568: selected, remaining = [], the candidates;
\* acc.row counts the rounds
RoundsCall ==
    /\ pc = "rounds_call"
    /\ cands' = IF params.policy = "iterative" THEN SortedByEfficiency(cands) ELSE cands
    /\ lines' = cands'
    /\ selected' = <<>>
    /\ acc' = NoAcc
    /\ pc' = "rounds_loop"
    /\ RoundsFrame

\* lines 472-497 and 588-599: a round that moves a line from remaining to selected
RoundsContinue ==
    /\ pc = "rounds_loop"
    /\ LET out == RoundOutcome
       IN  /\ out.pick # 0
           /\ selected' = Append(selected, lines[out.pick])
           /\ lines' = RemoveAt(lines, out.pick)
    /\ acc' = [acc EXCEPT !.row = @ + 1]
    /\ UNCHANGED <<pc, cands>>
    /\ RoundsFrame

\* lines 472, 498-501 and 588, 600: remaining is empty or no line is added
RoundsReturn ==
    /\ pc = "rounds_loop"
    /\ LET out == RoundOutcome
       IN  /\ out.pick = 0
           /\ pc' = IF out.raised THEN "rounds_raised" ELSE "rounds_done"
    /\ UNCHANGED <<selected, lines, acc, cands>>
    /\ RoundsFrame

RoundsNext ==
    \/ RoundsCall
    \/ RoundsContinue
    \/ RoundsReturn

\* searches from the source stops to the destination stops
SearchInit ==
    /\ RouterInit
    /\ query.o \in SourceIds
    /\ query.d \in DestinationIds
    /\ params.transfer_penalty_min = 5 * MaxPenalty

LoopsInit == SearchInit \/ RoundsInit

\* a running loop takes its next step
SpecLoops ==
    /\ LoopsInit
    /\ [][RouterNext \/ RoundsNext]_vars
    /\ WF_vars(RouterNext)
    /\ WF_vars(RoundsNext)

---------------------------------------------------------------------------
(* Demand of the stops: distribute_demand, nearest_stops_demand.py *)

\* lines 4-5, squared: the square root keeps the order of the distances
euclidean_distance(lat1, lon1, lat2, lon2) ==
    (lat1 - lat2) * (lat1 - lat2) + (lon1 - lon2) * (lon1 - lon2)

\* keeps the rows that come last of equal distances, and one row fewer
nsmallest_but_one(n, distance) ==
    {i \in DOMAIN distance :
        Cardinality({j \in DOMAIN distance :
                        \/ distance[j] < distance[i]
                        \/ distance[j] = distance[i] /\ j > i}) < n - 1}

\* line 25: DataFrame.nsmallest(n, "distance"), the row numbers; of equal
\* distances the rows that come first are kept
nsmallest(n, distance) ==
    {i \in DOMAIN distance :
        Cardinality({j \in DOMAIN distance :
                        \/ distance[j] < distance[i]
                        \/ distance[j] = distance[i] /\ j < i}) < n}

\* lines 20-22
DistancesTo(building, frame) ==
    [i \in DOMAIN frame |->
        euclidean_distance(building.latitude, building.longitude,
                           frame[i].stop_lat, frame[i].stop_lon)]

\* lines 17-29 for one building; total_demand is in thirds
AddBuilding(building, frame) ==
    LET closest_stops == nsmallest(ClosestStops, DistancesTo(building, frame))
    IN  [i \in DOMAIN frame |->
            IF i \in closest_stops
            THEN [frame[i] EXCEPT !.total_demand = @ + building.demand]
            ELSE frame[i]]

\* line 32: round(0) of a number of thirds, which is never half-way
RoundThirds(x) == (x + 1) \div 3

\* line 35: clip(lower=10)
ClipLower(x) == Max(x, MinDemand)

\* lines 32-35
RoundAndClip(frame) ==
    [i \in DOMAIN frame |->
        [frame[i] EXCEPT !.total_demand = ClipLower(RoundThirds(@))]]

\* stops.csv and buildings.csv: places on a small grid
Places == (0..MaxGrid) \X (0..MaxGrid)

StopRow(place) == [stop_lat |-> place[1], stop_lon |-> place[2], total_demand |-> 0]

BuildingRow(place, demand) ==
    [latitude |-> place[1], longitude |-> place[2], demand |-> demand]

BuildingDemands == {3, 30, 45}

StopsFiles == UNION {[1..n -> {StopRow(p) : p \in Places}] : n \in 1..MaxStopRows}

BuildingsFiles ==
    UNION {[1..n -> {BuildingRow(p, d) : p \in Places, d \in BuildingDemands}] :
           n \in 0..MaxBuildings}

\* acc.row counts the buildings done
DemandInit ==
    /\ pc = "demand_loop"
    /\ stops \in StopsFiles
    /\ src \in BuildingsFiles
    /\ acc = [NoAcc EXCEPT !.status = "running"]
    /\ dst = <<>>
    /\ od = NoOd
    /\ params = <<>>
    /\ cands = <<>>
    /\ selected = <<>>
    /\ result = <<>>
    /\ lines = <<>>
    /\ query = NoQuery
    /\ search = Idle

DemandFrame ==
    UNCHANGED <<lines, od, params, query, search, result, src, dst, cands, selected>>

\* lines 16-29: one building
DemandBuilding ==
    /\ pc = "demand_loop"
    /\ acc.row < Len(src)
    /\ stops' = AddBuilding(src[acc.row + 1], stops)
    /\ acc' = [acc EXCEPT !.row = @ + 1]
    /\ UNCHANGED pc
    /\ DemandFrame

\* lines 31-38
DemandRound ==
    /\ pc = "demand_loop"
    /\ acc.row = Len(src)
    /\ stops' = RoundAndClip(stops)
    /\ pc' = "demand_done"
    /\ UNCHANGED acc
    /\ DemandFrame

DemandNext ==
    \/ DemandBuilding
    \/ DemandRound

SpecDemand == DemandInit /\ [][DemandNext]_vars


---------------------------------------------------------------------------
(* The route sequencers, each run twice on one stop list *)

Sequencers == {"optimize_route_greedy", "nearest_order"}

\* stop lists, with repeated stops
StopLists == UNION {[1..n -> StopIds] : n \in 0..MaxSeqLen}

SequenceInit ==
    /\ pc = "sequence_first"
    /\ stops = Registry
    /\ \E q \in StopLists, f \in Sequencers : params = [stop_seq |-> q, sequencer |-> f]
    /\ result = <<>>
    /\ od = NoOd
    /\ lines = <<>>
    /\ query = NoQuery
    /\ search = Idle
    /\ acc = NoAcc
    /\ NoMain

SequenceFrame ==
    UNCHANGED <<stops, lines, od, params, query, search, acc, src, dst, cands, selected>>

SequenceCalled == pc \in {"sequence_first", "sequence_again"}

SequenceReturn(order) ==
    /\ result' = Append(result, order)
    /\ pc' = IF pc = "sequence_first" THEN "sequence_again" ELSE "sequence_done"

\* lines 293-322; every run of the program has its own iteration order of
\* a set of strings
SequenceGreedy ==
    /\ SequenceCalled
    /\ params.sequencer = "optimize_route_greedy"
    /\ \E h \in HashOrders : SequenceReturn(optimize_route_greedy(params.stop_seq, stops, h))
    /\ SequenceFrame

\* lines 102-116
SequenceNearest ==
    /\ SequenceCalled
    /\ params.sequencer = "nearest_order"
    /\ \E h \in HashOrders : SequenceReturn(nearest_order(params.stop_seq, stops, h))
    /\ SequenceFrame

SequenceNext ==
    \/ SequenceGreedy
    \/ SequenceNearest

SpecSequence == SequenceInit /\ [][SequenceNext]_vars


---------------------------------------------------------------------------
(* Statements about the demand of the stops *)

\* the stops whose running total the step has changed
Gained == {i \in DOMAIN stops : stops'[i].total_demand # stops[i].total_demand}

\* the distance of stop i from the building of the step
FromBuilding(i) == DistancesTo(src[acc.row + 1], stops)[i]

(***************************************************************************)
(* C21.  For each building, distribute_demand adds demand/3 to the running *)
(* total of each of the 3 stops nearest to it in planar coordinate         *)
(* distance and to no other stop; after all buildings are processed and    *)
(* the totals are rounded and clipped, every stop's total demand is an     *)
(* integer of at least 10.  The running totals are counted in thirds.      *)
(***************************************************************************)
C21_DemandToThreeNearest ==
    /\ [][pc = "demand_loop" /\ pc' = "demand_loop" =>
             /\ Cardinality(Gained) = Min(ClosestStops, Len(stops))
             /\ \A i \in Gained :
                    /\ stops'[i].total_demand
                           = stops[i].total_demand + src[acc.row + 1].demand
                    /\ \A j \in DOMAIN stops \ Gained : FromBuilding(i) <= FromBuilding(j)]_vars
    /\ [](pc = "demand_done" =>
             \A i \in DOMAIN stops :
                 stops[i].total_demand \in Int /\ stops[i].total_demand >= MinDemand)

\* two buildings were distributed over four stops: one stop has the
\* thirds of both, another was raised to the minimum
C21_TwoBuildingsFourStops ==
    /\ pc = "demand_done"
    /\ Len(src) = 2 /\ src[1].demand = 30 /\ src[2].demand = 45
    /\ Len(stops) = 4
    /\ \E i, j \in DOMAIN stops :
           stops[i].total_demand = 25 /\ stops[j].total_demand = MinDemand


---------------------------------------------------------------------------
(* Statements about the route sequencers *)

\* great-circle distance between two stops
Apart(a, b) == haversine_km(stops[a].lat, stops[b].lat)

\* order has every distinct stop of stop_seq once, starts with its first
\* stop, and goes on with a nearest stop of those not yet placed
NearestNeighbourOrder(order, stop_seq) ==
    /\ Range(order) = Range(stop_seq)
    /\ \A i, j \in DOMAIN order : i # j => order[i] # order[j]
    /\ stop_seq # <<>> => order[1] = stop_seq[1]
    /\ \A k \in 2..Len(order) :
           \A t \in Range(stop_seq) \ {order[i] : i \in 1..(k - 1)} :
               Apart(order[k - 1], order[k]) <= Apart(order[k - 1], t)

(***************************************************************************)
(* C22.  For any input stop list, the nearest-neighbour sequencer          *)
(* (optimize_route_greedy, nearest_order) returns an order that contains   *)
(* every distinct input stop exactly once, begins with the first stop of   *)
(* the input, and in which each later stop is a stop of minimum            *)
(* great-circle distance from its predecessor among the stops not yet      *)
(* placed.                                                                 *)
(***************************************************************************)
C22_NearestNeighbourOrder ==
    \A n \in DOMAIN result : NearestNeighbourOrder(result[n], params.stop_seq)

(***************************************************************************)
(* C23.  Route sequencing is a deterministic function of its inputs: for   *)
(* a fixed input stop list and fixed stop coordinates, two runs of a       *)
(* sequencer return the same stop order, also when two or more unvisited   *)
(* stops are equally close to the current stop and the choice is made      *)
(* among the members of an unordered set.                                  *)
(***************************************************************************)
C23_SequencingDeterministic ==
    pc = "sequence_done" => result[1] = result[2]


---------------------------------------------------------------------------
(* Statements about the selection policies *)

SelectReturned == pc = "select_done"

SameOutcome(a, b) ==
    /\ a.status = b.status
    /\ a.status = "returned" => a.value = b.value

SameRun(a, b) ==
    /\ a.status = b.status
    /\ a.status = "returned" =>
           /\ a.selected = b.selected
           /\ SameOutcome(a.metrics, b.metrics)

SameEfficiency(a, b) ==
    a.efficiency_score.num * b.efficiency_score.den
        = b.efficiency_score.num * a.efficiency_score.den

C12_SelectionWithinFleet ==
    params.fleet_buses >= 1 =>
        \A n \in DOMAIN result :
            result[n].status = "returned" =>
                Len(result[n].selected) <= params.fleet_buses

\* the metrics of a selection; no line gives the sentinel cost and coverage 0
MetricsOf(lns) == EvaluationOf(lns).value

\* delta coverage x 1000 - delta cost / 1000 between the metrics new and old,
\* times 2000 x the divisor of the coverage, as hi x 2000000 - lo with
\* 0 <= lo < 2000000: the sentinel cost times a divisor is no 32-bit number
ScoreOver(new, old) ==
    LET unit == CoverageWeight * CostWeight * OneCost
        d == new.demand_coverage.den
        gain == new.demand_coverage.num - old.demand_coverage.num
        q == (new.total_cost - old.total_cost) \div unit
        r == (new.total_cost - old.total_cost) % unit
    IN  [hi |-> gain - q * d - ((r * d) \div unit), lo |-> (r * d) % unit]

ScorePositive(a) == a.hi > 0

ScoreGreater(a, b) == a.hi > b.hi \/ (a.hi = b.hi /\ a.lo < b.lo)

\* the rounds of the marginal-gain rule from the selection picked: the
\* first remaining line of the largest score is added while that score is
\* positive
RECURSIVE MarginalGainRounds(_, _)
MarginalGainRounds(picked, remaining) ==
    IF remaining = <<>> THEN picked
    ELSE LET score == [n \in DOMAIN remaining |->
                          ScoreOver(MetricsOf(Append(picked, remaining[n])),
                                    MetricsOf(picked))]
             best == CHOOSE n \in DOMAIN remaining :
                         /\ \A k \in DOMAIN remaining : ~ScoreGreater(score[k], score[n])
                         /\ \A k \in 1..(n - 1) : ScoreGreater(score[n], score[k])
         IN  IF ScorePositive(score[best])
             THEN MarginalGainRounds(Append(picked, remaining[best]),
                                     RemoveAt(remaining, best))
             ELSE picked

(***************************************************************************)
(* C13.  optimize_routes_iterative starts from the empty selection and in  *)
(* every round, the first included, scores each remaining candidate by     *)
(* delta coverage x 1000 - delta cost / 1000 between the metrics of the    *)
(* selection with the candidate and those of the selection (the empty      *)
(* selection has coverage 0 and the sentinel cost); it adds the candidate  *)
(* of the largest score and stops exactly when no remaining candidate has  *)
(* a positive score.                                                       *)
(***************************************************************************)
C13_MarginalGainFromEmpty ==
    /\ params.policy = "iterative"
    /\ pc \in {"select_again", "select_done"}
    /\ result[1].status = "returned"
    => result[1].selected = MarginalGainRounds(<<>>, cands)

\* the lines that the per-source picks of lines 534-539 give
PerSourcePicks ==
    BestRoutePerSource(<<>>, 1, unique([n \in DOMAIN od.rows |-> od.rows[n].o]), cands, od)

\* the stops a candidate shares with one selected line are fewer than 70%
\* of the candidate's stops
SharesLittleWith(ln, other) ==
    OverlapScale * Cardinality(Range(ln.stops) \cap Range(other.stops))
        < OverlapLimit * Len(ln.stops)

\* the fill phase as stated: a candidate is added exactly when it shares
\* little with each selected line taken separately
RECURSIVE FillSeparately(_, _, _, _)
FillSeparately(picked, n, remaining, fleet_buses) ==
    IF n > Len(remaining) \/ Len(picked) >= fleet_buses \div 2 THEN picked
    ELSE FillSeparately(IF \A k \in DOMAIN picked : SharesLittleWith(remaining[n], picked[k])
                        THEN Append(picked, remaining[n]) ELSE picked,
                        n + 1, remaining, fleet_buses)

(***************************************************************************)
(* C15.  After the per-source picks, optimize_routes_demand_driven walks   *)
(* the unused candidates in descending efficiency order and, while the     *)
(* selection holds fewer than fleet_size // 2 lines, adds a candidate      *)
(* exactly when, for each already-selected line taken separately, the      *)
(* number of stops the candidate shares with that line is below 70% of the *)
(* candidate's stop count; the fill phase adds no line once the selection  *)
(* holds fleet_size // 2 lines.                                            *)
(***************************************************************************)
C15_FillByOverlapPerLine ==
    /\ params.policy = "demand_driven"
    /\ pc \in {"select_again", "select_done"}
    /\ result[1].status = "returned"
    => result[1].selected =
           FillSeparately(PerSourcePicks, 1,
               SortedByEfficiency(SelectSeq(cands,
                   LAMBDA ln : ln.line_id \notin LineIds(PerSourcePicks))),
               params.fleet_buses)

\* total_cost of a selection, lines 570-585
CostOf(lns) ==
    total_cost(lns, od, stops, params.fleet_buses, params.k_transfers,
               params.transfer_penalty_min, params.speed_kmh).value

GreedyReturned ==
    /\ params.policy = "greedy"
    /\ pc \in {"select_again", "select_done"}
    /\ result[1].status = "returned"

\* the candidates that are not in the selection s
NotIn(s) == {n \in DOMAIN cands : \A k \in DOMAIN s : s[k] # cands[n]}

C25_InputsUnchanged ==
    [][SelectCalled => cands' = cands /\ stops' = stops /\ od' = od]_vars


\* the lines of list are lines of pool, and none is in list twice
FromPoolOnce(list, pool) ==
    /\ \A i \in DOMAIN list : \E n \in DOMAIN pool : list[i] = pool[n]
    /\ \A i, j \in DOMAIN list : i # j => list[i] # list[j]

DistinctIds(pool) ==
    \A i, j \in DOMAIN pool : i # j => pool[i].line_id # pool[j].line_id

(***************************************************************************)
(* C29.  For a candidate pool with pairwise distinct line ids, the list    *)
(* returned by each selection policy contains only lines of the pool and   *)
(* contains no line more than once, after any number of selection rounds.  *)
(***************************************************************************)
C29_SelectsFromPoolOnce ==
    DistinctIds(cands) =>
        \A n \in DOMAIN result :
            result[n].status = "returned" => FromPoolOnce(result[n].selected, cands)

\* two sources share their best line, and the policy returns two lines
C29_SharedBestLine ==
    /\ pc = "select_done"
    /\ params.policy = "demand_driven"
    /\ DistinctIds(cands)
    /\ result[2].status = "returned"
    /\ Len(result[2].selected) >= 2
    /\ \E n \in DOMAIN cands :
           /\ cands[n] = result[2].selected[1]
           /\ Serves(cands[n], 1) /\ Serves(cands[n], 2)


---------------------------------------------------------------------------
(* Statements about the pipeline *)

AfterCandidates == pc \in {"main_select", "main_compare", "main_report", "main_done"}

AfterSelection == pc \in {"main_compare", "main_report", "main_done"}

(***************************************************************************)
(* C9.  When no sources are supplied the pipeline completes without        *)
(* raising: candidate generation yields no lines, the selection is empty   *)
(* and the evaluator reports the sentinel cost with coverage 0.            *)
(***************************************************************************)
C9_NoSourcesCompletes ==
    src = <<>> =>
        /\ pc # "main_raised"
        /\ AfterCandidates => cands = <<>>
        /\ AfterSelection => selected = <<>>
        /\ \A n \in DOMAIN result : result[n] = EmptyResult

InvalidInput ==
    \/ FrameIds(src) \cup FrameIds(dst) = {}
    \/ src = <<>>
    \/ params.speed_kmh <= 0
    \/ params.fleet_buses <= 0

(***************************************************************************)
(* C10.  A run with an empty stop set, an empty source set, a non-positive *)
(* speed or a non-positive fleet size ends in an error before candidate    *)
(* generation, routing or selection, and produces no selection and no      *)
(* metrics.                                                                *)
(***************************************************************************)
C10_InvalidInputRejected ==
    InvalidInput =>
        /\ ~AfterCandidates
        /\ selected = <<>>
        /\ result = <<>>

\* main has run optimize_routes_demand_driven on the candidates
DemandDrivenRun == AfterSelection /\ params.algorithm \in {"genetic", "both"}

(***************************************************************************)
(* C14.  In a run with the demand-driven policy (OD construction,          *)
(* candidate generation truncated to target_lines >= 1, then               *)
(* optimize_routes_demand_driven), for every source that has at least one  *)
(* destination the returned selection contains at least one line whose     *)
(* stop sequence includes that source.                                     *)
(***************************************************************************)
C14_EverySourceServed ==
    DemandDrivenRun /\ params.target_lines >= 1 /\ dst # <<>> =>
        \A sid \in FrameIds(src) : \E n \in DOMAIN selected : Serves(selected[n], sid)

\* the lines generated before the sort and the cut of lines 258-259
GeneratedOf(h) ==
    GeneratedLines(GenerationInputs(stops, stop_keys(src, dst), od, params.speed_kmh, h))

\* the candidates are lines of gen, and no line of gen that is not a
\* candidate has a higher efficiency than a candidate
BestOfGenerated(gen) ==
    /\ Range(cands) \subseteq Range(gen)
    /\ \A n \in DOMAIN gen :
           gen[n] \notin Range(cands) =>
               \A k \in DOMAIN cands :
                   ~RatioGreater(gen[n].efficiency_score, cands[k].efficiency_score)

LoopMinutes(stops_order) ==
    SeqSum([i \in DOMAIN stops_order |->
               travel_minutes(stops[stops_order[i]].lat,
                              stops[stops_order[(i % Len(stops_order)) + 1]].lat,
                              params.speed_kmh)])

\* the sum of demand_by_stop over the stops of a line
StopsDemand(stops_order) ==
    SeqSum([i \in DOMAIN stops_order |-> DemandGet(demand_by_stop(od), stops_order[i])])

\* cycle time, coverage and efficiency of a line as stated; the cycle time
\* is in tenths of a minute
MetricsAsStated(ln) ==
    /\ ln.cycle_minutes = LayoverFactor * LoopMinutes(ln.stops)
    /\ ln.demand_coverage = StopsDemand(ln.stops)
    /\ ln.efficiency_score.num * ln.cycle_minutes
           = ln.demand_coverage * ln.efficiency_score.den

(***************************************************************************)
(* C18.  Every candidate line produced by build_hub_and_spoke_routes has   *)
(* cycle_minutes equal to the travel time of its ordered closed loop (all  *)
(* consecutive legs plus the leg from the last stop back to the first)     *)
(* multiplied by 1.1, demand_coverage equal to the sum of demand_by_stop   *)
(* over its stops, and efficiency_score equal to demand_coverage divided   *)
(* by cycle_minutes, for every cycle time, those below one minute          *)
(* included.                                                               *)
(***************************************************************************)
C18_LineMetrics ==
    pc = "main_select" => \A n \in DOMAIN cands : MetricsAsStated(cands[n])

\* the lines made by the loop over the sources, lines 140-173
IsDirect(ln) == ln.line_id \in {LineName("H", n) : n \in 0..Len(src)}

\* the sources that have a row of the OD matrix
SourcesWithRows == {sid \in FrameIds(src) : \E n \in DOMAIN od.rows : od.rows[n].o = sid}

(***************************************************************************)
(* C19.  For each supplied source that has at least one OD row, candidate  *)
(* generation (before the cut to target_lines) creates one direct line     *)
(* whose stop set is that source together with its highest-demand          *)
(* destinations by that source's OD rows, at most 8 of them; this holds    *)
(* for every source, also for one whose identifier appears among the       *)
(* destination stops.                                                      *)
(***************************************************************************)
C19_DirectLinePerSource ==
    AfterCandidates =>
        \A h \in HashOrders : \A sid \in SourcesWithRows :
            \E n \in DOMAIN GeneratedOf(h) :
                /\ IsDirect(GeneratedOf(h)[n])
                /\ Range(GeneratedOf(h)[n].stops)
                       = {sid} \cup Range(TopDestinationsOf(od, sid, TopDestinations))

\* the rows of the OD matrix for the pair (o, d)
PairRows(o, d) == {n \in DOMAIN od.rows : od.rows[n].o = o /\ od.rows[n].d = d}

\* the sum of the OD demands of the source o
DemandFrom(o) ==
    SeqSum([n \in DOMAIN od.rows |-> IF od.rows[n].o = o THEN od.rows[n].demand ELSE 0])

(***************************************************************************)
(* C20.  For every source and every non-empty destination set,             *)
(* build_equal_split_od produces exactly one OD record per (source,        *)
(* destination) pair, each carrying the source's total demand divided by   *)
(* the number of destinations, so that the OD demands of a source sum to   *)
(* that source's total demand.                                             *)
(***************************************************************************)
C20_EqualSplit ==
    pc # "main_load" /\ dst # <<>> =>
        /\ Len(od.rows) = Len(src) * Len(dst)
        /\ \A i \in DOMAIN src :
               /\ \A j \in DOMAIN dst :
                      /\ Cardinality(PairRows(src[i].stop_id, dst[j].stop_id)) = 1
                      /\ \A n \in PairRows(src[i].stop_id, dst[j].stop_id) :
                             od.rows[n].demand * Len(dst) = src[i].demand
               /\ DemandFrom(src[i].stop_id) = src[i].demand

\* the demands of two sources, one of them positive, were split over
\* several destinations
C20_TwoSourcesSplit ==
    /\ pc = "main_candidates"
    /\ Len(src) = 2
    /\ Len(dst) >= 2
    /\ src[1].demand > 0
    /\ Len(od.rows) = 2 * Len(dst)

\* the lines made by the loop over the pairs of hubs, lines 176-218
IsCross(ln) == ln.line_id \in {LineName("C", n) : n \in 0..MaxHubs}

\* the hubs: the at most 6 destinations of largest demand, of positive demand
HubsOf == hub_stops(demand_by_stop(od), stops)

\* the stops that qualify as intermediate stops between the hubs a and b
Qualifying(a, b) ==
    {sid \in DOMAIN demand_by_stop(od) :
        /\ sid \in DOMAIN stops
        /\ sid \notin {a, b}
        /\ demand_by_stop(od)[sid] > 0
        /\ point_to_line_distance(stops[sid].lat, stops[a].lat, stops[b].lat) < NearLine}

\* the sets of the up to 4 stops of Q of largest demand
TopOf(Q) ==
    {T \in SUBSET Q :
        /\ Cardinality(T) = Min(TopIntermediate, Cardinality(Q))
        /\ \A t \in T : \A q \in Q \ T : demand_by_stop(od)[t] >= demand_by_stop(od)[q]}

\* the pairs of adjacent hubs, by the place of their first hub in hub order,
\* that have a qualifying intermediate stop
QualifyingPairs ==
    {i \in 1..(Len(HubsOf) - 1) : Qualifying(HubsOf[i], HubsOf[i + 1]) # {}}

\* ln is a cross-hub line of the hubs i and i + 1
CrossLineOf(ln, i) ==
    /\ IsCross(ln)
    /\ \E T \in TopOf(Qualifying(HubsOf[i], HubsOf[i + 1])) :
           Range(ln.stops) = {HubsOf[i], HubsOf[i + 1]} \cup T

\* every qualifying pair has a line of its own among the lines gen
LineForEveryPair(gen) ==
    \E f \in [QualifyingPairs -> DOMAIN gen] :
        /\ \A i, j \in QualifyingPairs : i # j => f[i] # f[j]
        /\ \A i \in QualifyingPairs : CrossLineOf(gen[f[i]], i)

(***************************************************************************)
(* C24.  With hubs being the at most 6 highest-demand destinations of      *)
(* positive demand, build_hub_and_spoke_routes generates (before the cut)  *)
(* a cross-hub line for every pair of adjacent hubs in hub order that has  *)
(* at least one qualifying intermediate stop (positive demand, planar      *)
(* distance to the segment between the hubs below 0.01); the line consists *)
(* of the two hubs and the up to 4 qualifying intermediates of highest     *)
(* demand.                                                                 *)
(***************************************************************************)
C24_CrossLinePerHubPair ==
    pc = "main_select" =>
        \A h \in HashOrders :
            LineForEveryPair(SelectSeq(GeneratedOf(h), LAMBDA ln : IsCross(ln)))

\* the destinations frame of a run that differs from this one only in the
\* demand values of the destinations
OtherRuns == {WithDemand(dst, dem) : dem \in [DOMAIN dst -> DestinationDemands]}

\* what this run has built is what a run over the destinations other builds
SameDesign(other) ==
    LET od2 == build_equal_split_od(src, other)
        stops2 == build_stops(src, other)
    IN  /\ pc # "main_load" => od = od2 /\ stops = stops2
        /\ pc = "main_select" =>
               \E h \in HashOrders :
                   cands = build_hub_and_spoke_routes(stops2, stop_keys(src, other), od2,
                               params.target_lines, params.speed_kmh, h).value
        /\ pc = "main_report" /\ params.algorithm = "genetic" =>
               /\ selected = optimize_routes_demand_driven(cands, od2, params.fleet_buses).value
               /\ result = <<evaluate_solution_improved(selected, od2, stops2,
                                 params.fleet_buses, params.k_transfers,
                                 params.transfer_penalty_min, params.speed_kmh).value>>
        /\ pc = "main_report" /\ params.algorithm = "greedy" =>
               selected = optimize_routes_iterative(cands, od2, stops2, params.fleet_buses,
                              params.k_transfers, params.transfer_penalty_min,
                              params.speed_kmh).value

DestinationDemandIgnored == \A other \in OtherRuns : SameDesign(other)

EqualDemandByStop ==
    pc # "main_load" =>
        \A d1, d2 \in FrameIds(dst) :
            DemandGet(demand_by_stop(od), d1) = DemandGet(demand_by_stop(od), d2)

(***************************************************************************)
(* C26.  The demand values of the destination stops do not influence the   *)
(* network design: two runs that differ only in the demand values of the   *)
(* destinations (same sources, same destination ids and coordinates) build *)
(* the same OD matrix, hence the same candidate lines, selections and      *)
(* metrics; under equal split every destination has the same aggregated    *)
(* demand_by_stop.                                                         *)
(***************************************************************************)
C26_DestinationDemandBlind ==
    /\ DestinationDemandIgnored
    /\ EqualDemandByStop


---------------------------------------------------------------------------
(* Statements about the evaluator *)

EvalReturned == pc = "eval_done"

RouterTime(r) ==
    shortest_time_k_transfers(r.o, r.d, lines, stops,
                              wait_by_line_of(lines, params.fleet_buses),
                              params.transfer_penalty_min, params.k_transfers,
                              params.speed_kmh)

DirectTime(r) == travel_minutes(stops[r.o].lat, stops[r.d].lat, params.speed_kmh)

RowsReached == {n \in DOMAIN od.rows : IsFinite(RouterTime(od.rows[n]))}

ExpectedCost ==
    SeqSum([n \in DOMAIN od.rows |->
               IF n \in RowsReached
               THEN od.rows[n].demand * RouterTime(od.rows[n])
               ELSE od.rows[n].demand
                        * (DirectTime(od.rows[n]) + params.transfer_penalty_min)])

ExpectedCovered ==
    SeqSum([n \in DOMAIN od.rows |->
               IF n \in RowsReached THEN od.rows[n].demand ELSE 0])

TotalDemand == SeqSum([n \in DOMAIN od.rows |-> od.rows[n].demand])

RatioEq(r, num, den) == r.num * den = num * r.den

\* C5: for a non-empty line set the total cost is the sum of demand x router
\* time over the reached OD records plus demand x (direct travel time + transfer
\* penalty) over the others, and the covered demand is the demand of exactly the
\* reached records.
C5_CostAndCoveredDemand ==
    (EvalReturned /\ lines # <<>>) =>
        /\ result.total_cost = ExpectedCost
        /\ acc.covered_demand = ExpectedCovered
        /\ result.demand_coverage.num = ExpectedCovered

\* an evaluation with a reached and an unreached record of positive demand
C5_Witness ==
    /\ EvalReturned
    /\ lines # <<>>
    /\ \E n \in RowsReached : od.rows[n].demand > 0
    /\ \E n \in DOMAIN od.rows \ RowsReached :
           od.rows[n].demand > 0 /\ params.transfer_penalty_min > 0

\* C6: the demand coverage returned lies in [0, 1], for an empty line set too.
C6_CoverageInUnitInterval ==
    EvalReturned =>
        /\ result.demand_coverage.den > 0
        /\ 0 <= result.demand_coverage.num
        /\ result.demand_coverage.num <= result.demand_coverage.den

\* an evaluation that covers more than 1.0 of demand, all there is
C6_Witness ==
    /\ EvalReturned
    /\ acc.covered_demand > OneDemand
    /\ acc.covered_demand = acc.total_demand

\* C7: for a non-empty line set and positive total demand the coverage is
\* covered demand / total demand and the efficiency is covered demand / total
\* cost, for totals below 1 as well as above.
C7_RatiosAreExact ==
    (EvalReturned /\ lines # <<>> /\ TotalDemand > 0) =>
        /\ RatioEq(result.demand_coverage, acc.covered_demand, TotalDemand)
        /\ RatioEq(result.efficiency, acc.covered_demand, result.total_cost)

\* C8: for an empty line set the evaluator returns cost 1e9, coverage 0 and
\* efficiency 0 without raising and without a single router search.
C8_EmptyLineSet ==
    (pc \in {"eval_done", "eval_raised"} /\ lines = <<>>) =>
        /\ pc = "eval_done"
        /\ result.total_cost = Sentinel
        /\ result.demand_coverage.num = 0
        /\ result.efficiency.num = 0
        /\ acc.router_calls = 0

\* an evaluation of no lines against an OD matrix with demand
C8_Witness == EvalReturned /\ lines = <<>> /\ TotalDemand > 0

---------------------------------------------------------------------------
(* The state graph of the router, for the statements about it:             *)
(* nodes (line, position, transfers used); a forward move to the next      *)
(* position of the same line; a transfer to another line at the same stop. *)

GraphNodes ==
    UNION {{<<lines[n].line_id, i, k>> :
               i \in DOMAIN lines[n].stops, k \in 0..params.k_transfers} :
           n \in DOMAIN lines}

NodeStop(nd) == LineById(lines, nd[1]).stops[nd[2]]

LegTime(lid, i) ==
    travel_minutes(stops[LineById(lines, lid).stops[i]].lat,
                   stops[LineById(lines, lid).stops[i + 1]].lat, params.speed_kmh)

\* the weight of the edge p -> nd, Inf when there is none
EdgeWeight(p, nd) ==
    IF nd[1] = p[1] /\ nd[2] = p[2] + 1 /\ nd[3] = p[3]
    THEN LegTime(p[1], p[2])
    ELSE IF nd[1] # p[1] /\ NodeStop(nd) = NodeStop(p) /\ nd[3] = p[3] + 1
    THEN params.transfer_penalty_min + query.wait_by_line[nd[1]]
    ELSE Inf

MinOf(S) == IF \E x \in S : IsFinite(x)
            THEN CHOOSE x \in S : IsFinite(x) /\ \A y \in S : LessEq(x, y)
            ELSE Inf

InitialCost(nd) ==
    IF NodeStop(nd) = query.o /\ nd[3] = 0 THEN query.wait_by_line[nd[1]] ELSE Inf

RECURSIVE PathCosts(_)
PathCosts(D) ==
    LET D2 == [nd \in DOMAIN D |->
                  MinOf({D[nd]} \cup
                        {D[p] + EdgeWeight(p, nd) :
                            p \in {q \in DOMAIN D :
                                      IsFinite(D[q]) /\ IsFinite(EdgeWeight(q, nd))}})]
    IN  IF D2 = D THEN D ELSE PathCosts(D2)

\* the minimum accumulated cost of a path from an initial state to each node
MinPathCost == PathCosts([nd \in GraphNodes |-> InitialCost(nd)])

\* the nodes at d that a path reaches, given the path costs D
AtD(D) == {nd \in DOMAIN D : NodeStop(nd) = query.d /\ IsFinite(D[nd])}

RouterReturned == pc = "router_done"

CostWith(k_max) ==
    shortest_time_k_transfers(query.o, query.d, lines, stops, query.wait_by_line,
                              params.transfer_penalty_min, k_max, params.speed_kmh)

\* C1: the cost returned with k_max = k + 1 is less than or equal to the cost
\* returned with k_max = k, infinity counting as the largest value.
C1_MonotoneInKMax ==
    RouterReturned => LessEq(CostWith(params.k_transfers + 1), result)

\* a search that found a path, where one more transfer gives a strictly lower cost
C1_Witness ==
    /\ RouterReturned
    /\ IsFinite(result)
    /\ Less(CostWith(params.k_transfers + 1), result)

\* the travel time along the closed loop of line ln from position i to position j
RECURSIVE AlongLoop(_, _, _)
AlongLoop(ln, i, j) ==
    IF i = j THEN 0
    ELSE IF i < Len(ln.stops)
    THEN travel_minutes(stops[ln.stops[i]].lat, stops[ln.stops[i + 1]].lat,
                        params.speed_kmh) + AlongLoop(ln, i + 1, j)
    ELSE travel_minutes(stops[ln.stops[i]].lat, stops[ln.stops[1]].lat,
                        params.speed_kmh) + AlongLoop(ln, 1, j)

OnSingleLine ==
    /\ Len(lines) = 1
    /\ Serves(lines[1], query.o)
    /\ Serves(lines[1], query.d)
    /\ params.k_transfers = 0

\* C2: with o and d on a single line and k_max = 0 the router returns the
\* line's initial wait plus the travel time along the closed loop from o to d,
\* whichever of the two comes first in the stop sequence.
C2_SingleLineCost ==
    (RouterReturned /\ OnSingleLine) =>
        result = query.wait_by_line[lines[1].line_id]
                 + AlongLoop(lines[1], build_line_indices(lines[1], query.o),
                             build_line_indices(lines[1], query.d))

\* C3: the returned cost is the minimum accumulated cost over all paths of the
\* state graph from an initial state at o to a state at d.
C3_ReturnsMinimum ==
    RouterReturned =>
        LET D == MinPathCost
        IN  AtD(D) # {} =>
                /\ \A nd \in AtD(D) : LessEq(result, D[nd])
                /\ \E nd \in AtD(D) : result = D[nd]

\* a search that met a lowered label and whose best path uses a transfer
C3_Witness ==
    /\ RouterReturned
    /\ IsFinite(result)
    /\ LET D == MinPathCost
       IN  /\ \E nd \in AtD(D) : nd[3] > 0 /\ D[nd] = result
           /\ \A nd \in AtD(D) : nd[3] = 0 => Less(result, D[nd])

\* C4: the router returns infinity, and never raises, exactly when no state at
\* d is reachable from o within k_max transfers.
C4_InfinityIffUnreachable ==
    (pc \in {"router_done", "router_raised"}) =>
        /\ pc = "router_done"
        /\ IsFinite(result) <=> AtD(MinPathCost) # {}

\* o and d are both served, and still no state at d is reachable
C4_Witness ==
    /\ RouterReturned
    /\ ~NotServed(lines, query.o, query.d)
    /\ AtD(MinPathCost) = {}
    /\ ~IsFinite(result)

(***************************************************************************)
(* C27.  The two cost implementations agree: for every non-empty line set, *)
(* OD matrix, fleet size, transfer limit and transfer penalty, the inner   *)
(* total_cost of greedy_select_lines equals the total cost returned by     *)
(* evaluate_solution_improved for the same arguments (same wait times,     *)
(* same router result, same fallback for unreachable pairs), and both give *)
(* 1e9 for the empty line set.                                             *)
(***************************************************************************)
C27_CostsAgree ==
    /\ pc = "eval_done" =>
           /\ GreedyCostOf(lines) = Completes(result.total_cost)
           /\ lines = <<>> => result.total_cost = Sentinel
    /\ pc = "eval_raised" => HasRaised(GreedyCostOf(lines))

\* the evaluator has returned the cost of a line list that reaches one pair
\* of positive demand and leaves another to the fallback, with a penalty
C27_ReachedAndFallback ==
    /\ pc = "eval_done"
    /\ lines # <<>>
    /\ params.transfer_penalty_min > 0
    /\ acc.accessible_pairs > 0
    /\ acc.covered_demand > 0
    /\ acc.total_demand > acc.covered_demand
    /\ result.total_cost > 0

\* the list L that the last line was added to
ExtendedList == Take(lines, Len(lines) - 1)

FiniteUnder(lns, r) ==
    IsFinite(BestOf(r, lns, stops, params.fleet_buses, params.k_transfers,
                    params.transfer_penalty_min, params.speed_kmh).result)

(***************************************************************************)
(* C28.  Adding a line never loses coverage: for every non-empty line set  *)
(* L, additional line c with a new line id, OD matrix, k_transfers and     *)
(* transfer penalty, every OD pair with a finite router cost under L also  *)
(* has a finite router cost under L plus c, so the demand coverage of L    *)
(* plus c is at least that of L, although the wait per line changes with   *)
(* the number of lines.                                                    *)
(***************************************************************************)
C28_AddingKeepsCoverage ==
    pc = "extend_done" =>
        /\ \A n \in DOMAIN od.rows :
               FiniteUnder(ExtendedList, od.rows[n]) => FiniteUnder(lines, od.rows[n])
        /\ ~HasRaised(result[1]) /\ ~HasRaised(result[2])
        /\ ~RatioGreater(result[1].value.demand_coverage, result[2].value.demand_coverage)

\* the added line changes the waits and makes a pair reachable by a transfer
C28_AddedLineReaches ==
    /\ pc = "extend_done"
    /\ params.k_transfers > 0
    /\ \E n, m \in DOMAIN od.rows :
           /\ FiniteUnder(ExtendedList, od.rows[n])
           /\ ~FiniteUnder(ExtendedList, od.rows[m])
           /\ FiniteUnder(lines, od.rows[m])
           /\ ~Serves(lines[Len(lines)], od.rows[m].o)
    /\ wait_by_line_of(lines, params.fleet_buses)[1] #
           wait_by_line_of(ExtendedList, params.fleet_buses)[1]
    /\ RatioGreater(result[2].value.demand_coverage, result[1].value.demand_coverage)

LoopReturned == pc \in {"router_done", "router_raised", "rounds_done", "rounds_raised"}

\* the heap entries of this step that were not in the heap before
Pushed == search'.pq \ search.pq

(***************************************************************************)
(* C30.  Every search and selection loop terminates:                       *)
(* shortest_time_k_transfers pushes a state only when this strictly lowers *)
(* the label of that state, over a finite set of states, and so returns in *)
(* the end; optimize_routes_iterative and greedy_select_lines take one     *)
(* candidate out of the remaining pool in each round they continue, so     *)
(* each returns after at most as many rounds as there are candidates.      *)
(***************************************************************************)
C30_LoopsTerminate ==
    /\ <>LoopReturned
    /\ [][pc = "router_loop" /\ pc' = "router_loop" =>
              \A e \in Pushed :
                  /\ Less(e[1], DistGet(search.dist, DistKey(e[2], e[3], e[4])))
                  /\ search'.dist[DistKey(e[2], e[3], e[4])] = e[1]]_vars
    /\ [][pc = "rounds_loop" /\ pc' = "rounds_loop" => Len(lines') = Len(lines) - 1]_vars
    /\ [](pc \in {"rounds_loop", "rounds_done"} =>
              /\ acc.row <= Len(cands)
              /\ acc.row + Len(lines) = Len(cands))

\* a selection loop has returned after as many rounds as there are
\* candidates, more than one
C30_RoundForEveryCandidate ==
    /\ pc = "rounds_done"
    /\ Len(cands) > 1
    /\ acc.row = Len(cands)
    /\ lines = <<>>

=============================================================================
